---- MODULE Spec2Model ----
(***************************************************************************)
(* Model of koishi-plugin-multi-bot-controller-satori-ai-charon:           *)
(* the SessionVirtualizer (identity codec, session facade, database-get    *)
(* rewriter, configuration proxy, entry-method patches), the BotManager    *)
(* lookups and the plugin's apply() / middleware.                          *)
(*                                                                         *)
(* Strings of the program are sequences of one-character strings, so that  *)
(* concatenation, prefixes and the regular expressions of the codec are    *)
(* computed and not assumed.  '' is the empty sequence.  Values that are   *)
(* not strings (undefined, arrays, configuration values) are tuples whose  *)
(* first element is a tag of more than one character.                      *)
(***************************************************************************)
EXTENDS Naturals, Sequences, FiniteSets, TLC

----------------------------------------------------------------------------
(* Bounds *)

\* longest real user / channel identity drawn as an input
MaxIdLen == 2
\* deepest nesting of intercepted entry-method calls inside one event
MaxDepth == 2
\* starts of the plugin on one shared service instance
MaxStarts == 2
\* calls of wrapDatabaseGet
MaxWraps == 3
\* client Proxies created by the apiClient accessor
MaxHandles == 2
\* APIClient instances constructed for one tenant
MaxChats == 2

----------------------------------------------------------------------------
(* JavaScript values *)

Undef == <<"undefined">>
EmptyStr == <<>>
LF == "\n"
\* the characters "." does not match (no s flag): ECMAScript LineTerminator
LineTerminators == {LF, "\r"}

\* ToBoolean: undefined and '' are falsy; arrays and objects are truthy
Truthy(v) == v # Undef /\ v # EmptyStr

None == <<>>
Some(x) == <<x>>

StartsWith(s, p) == Len(s) >= Len(p) /\ SubSeq(s, 1, Len(p)) = p

SetMin(S) == CHOOSE i \in S : \A j \in S : i <= j

SeqsUpTo(S, n) == UNION {[1..m -> S] : m \in 0..n}

----------------------------------------------------------------------------
(* BotManager *)

\* getBotId: `${platform}:${selfId}`
getBotId(platform, selfId) == platform \o <<":">> \o selfId

\* getBotConfig: config.find(bot => bot.botId === botId), None for undefined
getBotConfig(config, botId) ==
  LET hits == {i \in 1..Len(config) : config[i].botId = botId}
  IN IF hits = {} THEN None ELSE Some(config[SetMin(hits)])

----------------------------------------------------------------------------
(* Identity codec: virtualizer.ts resolveRealUserId / resolveRealChannelId /
   extractBotId.  Both regular expressions, /^sat_[^_]+_(.+)$/ and
   /^sat_([^_]+)_.+$/, match the same strings: "sat_", one or more
   characters other than "_" (line terminators included), "_", then one or
   more characters none of which is a line terminator, up to the end of the
   input.  [^_]+ can only end at the first "_" after the marker. *)

Marker == <<"s", "a", "t", "_">>

NoMatch == [ok |-> FALSE, bot |-> EmptyStr, rest |-> EmptyStr]

DotMatches(c) == c \notin LineTerminators

VirtualMatch(s) ==
  IF ~StartsWith(s, Marker) THEN NoMatch
  ELSE LET n == Len(s)
           us == {i \in 5..n : s[i] = "_"}
       IN IF us = {} THEN NoMatch
          ELSE LET j == SetMin(us)
               IN IF j > 5 /\ j < n /\ \A i \in (j+1)..n : DotMatches(s[i])
                  THEN [ok |-> TRUE, bot |-> SubSeq(s, 5, j-1),
                        rest |-> SubSeq(s, j+1, n)]
                  ELSE NoMatch

resolveRealUserId(virtualUserId) ==
  LET m == VirtualMatch(virtualUserId)
  IN IF m.ok THEN m.rest ELSE virtualUserId

resolveRealChannelId(virtualChannelId) ==
  LET m == VirtualMatch(virtualChannelId)
  IN IF m.ok THEN m.rest ELSE virtualChannelId

\* a pattern that does not ask for a real identity after the tenant:
\* /^sat_([^_]+)_/
extractBotIdLoose(virtualUserId) ==
  LET n == Len(virtualUserId)
      us == {i \in 5..n : virtualUserId[i] = "_"}
  IN IF StartsWith(virtualUserId, Marker) /\ us # {} /\ SetMin(us) > 5
     THEN SubSeq(virtualUserId, 5, SetMin(us) - 1)
     ELSE EmptyStr

extractBotId(virtualUserId) ==
  LET m == VirtualMatch(virtualUserId)
  IN IF m.ok THEN m.bot ELSE EmptyStr

----------------------------------------------------------------------------
(* Session facade: createVirtualSession's Proxy over a session object
   [platform, selfId, userId, channelId, content]. *)

\* a prefix that does not name the tenant
PrefixShared(botId) == Marker \o <<"_">>

\* const prefix = `sat_${botId}_`
Prefix(botId) == Marker \o botId \o <<"_">>

SessionProps == {"platform", "selfId", "userId", "channelId", "content"}
ProbeProps == {"__charonBotId", "__charonPrompt"}

\* a Map.get: undefined when the key is absent
MapGet(map, k) == IF k \in DOMAIN map THEN map[k] ELSE Undef

MapSet(map, k, v) == [x \in DOMAIN map \cup {k} |-> IF x = k THEN v ELSE map[x]]

\* a get trap that virtualizes the self identity as well
VirtualSessionGetVirtualSelf(target, botId, virtChannel, prompts, prop) ==
  IF prop = "userId" \/ prop = "selfId" THEN Prefix(botId) \o target[prop]
  ELSE IF prop = "channelId"
       THEN IF virtChannel THEN Prefix(botId) \o target.channelId
            ELSE target.channelId
  ELSE IF prop = "__charonBotId" THEN botId
  ELSE IF prop = "__charonPrompt" THEN MapGet(prompts, botId)
  ELSE target[prop]

\* the get trap
VirtualSessionGet(target, botId, virtChannel, prompts, prop) ==
  IF prop = "userId" THEN Prefix(botId) \o target.userId
  ELSE IF prop = "channelId"
       THEN IF virtChannel THEN Prefix(botId) \o target.channelId
            ELSE target.channelId
  ELSE IF prop = "selfId" THEN target.selfId
  ELSE IF prop = "__charonBotId" THEN botId
  ELSE IF prop = "__charonPrompt" THEN MapGet(prompts, botId)
  ELSE target[prop]

\* new RegExp(`^${prefix}`) tested on value: the prefix is used as a
\* pattern, in which '.' stands for any character but a line terminator;
\* the other characters of the identities drawn here stand for themselves
PrefixPatternMatches(value, prefix) ==
  /\ Len(value) >= Len(prefix)
  /\ \A i \in 1..Len(prefix) :
       IF prefix[i] = "." THEN DotMatches(value[i]) ELSE value[i] = prefix[i]

\* value.replace(new RegExp(`^${prefix}`), '')
StripPrefix(value, prefix) ==
  IF PrefixPatternMatches(value, prefix)
  THEN SubSeq(value, Len(prefix) + 1, Len(value))
  ELSE value

\* the set trap: the target after facade[prop] = value
VirtualSessionSet(target, botId, virtChannel, prop, value) ==
  IF prop = "userId"
  THEN [target EXCEPT !.userId = StripPrefix(value, Prefix(botId))]
  ELSE IF prop = "channelId" /\ virtChannel
       THEN [target EXCEPT !.channelId = StripPrefix(value, Prefix(botId))]
  ELSE MapSet(target, prop, value)

----------------------------------------------------------------------------
(* Storage query rewriter: the function wrapDatabaseGet installs.  A query
   is a function from the field names it carries to their values; the
   result is the call made on originalDatabaseGet. *)

TenantTable == <<"p", "_", "s", "y", "s", "t", "e", "m">>
OtherTable == <<"m", "e", "m", "o", "r", "y">>

\* query?.userid: undefined when the query has no such field
QueryUserid(query) == IF "userid" \in DOMAIN query THEN query.userid ELSE Undef

\* { ...query, userid: undefined, realUserId, botId }
RewrittenQuery(query, realUserId, botId) ==
  [f \in DOMAIN query \cup {"userid", "realUserId", "botId"} |->
     IF f = "userid" THEN Undef
     ELSE IF f = "realUserId" THEN realUserId
     ELSE IF f = "botId" THEN botId
     ELSE query[f]]

\* a JavaScript value that is a string: an array is written <<"array", ...>>
\* and an object <<"object", ...>>
IsString(v) == v = EmptyStr \/ v[1] \notin {"array", "object", "undefined"}

\* virtualUserId.match is not a function
TypeErrorThrown == [threw |-> <<"TypeError">>]

WrappedDatabaseGet(table, query, args) ==
  LET virtualUserId == QueryUserid(query)
      botId == extractBotId(virtualUserId)
  IN IF table = TenantTable /\ Truthy(virtualUserId) /\ ~IsString(virtualUserId)
     THEN TypeErrorThrown
     ELSE IF table = TenantTable /\ Truthy(virtualUserId) /\ Truthy(botId)
     THEN [table |-> table,
           query |-> RewrittenQuery(query, resolveRealUserId(virtualUserId), botId),
           args |-> args]
     ELSE [table |-> table, query |-> query, args |-> args]

----------------------------------------------------------------------------
(* Tenant records (BotPersonaConfig) and applyBotConfigs.  An optional
   object is None or Some(record). *)

OptField(opt, f) == IF opt = None THEN Undef ELSE opt[1][f]

\* new Map()
EmptyMap == [x \in {} |-> x]

EmptyMaps ==
  [prompts |-> EmptyMap, reasoner |-> EmptyMap, notReasoner |-> EmptyMap,
   favorability |-> EmptyMap, mood |-> EmptyMap]

ModelOverride(opt) ==
  [model |-> OptField(opt, "model"), baseURL |-> OptField(opt, "baseURL"),
   apiKey |-> OptField(opt, "apiKey")]

\* the guards of applyBotConfigs
SetsPrompt(b) == Truthy(b.prompt)
SetsReasoner(b) == Truthy(OptField(b.reasonerModel, "model"))
SetsNotReasoner(b) ==
  b.enableNotReasoner = TRUE /\ Truthy(OptField(b.notReasonerModel, "model"))
SetsFavorabilityNoFlag(b) == b.favorabilityConfig # None
SetsFavorability(b) == b.enableFavorability = TRUE /\ b.favorabilityConfig # None
SetsMood(b) == b.enableMood = TRUE /\ b.moodConfig # None

\* one iteration of the loop: the setters called for one record
ApplyOne(maps, b) ==
  IF ~Truthy(b.botId) THEN maps
  ELSE [prompts |->
          IF SetsPrompt(b) THEN MapSet(maps.prompts, b.botId, b.prompt)
          ELSE maps.prompts,
        reasoner |->
          IF SetsReasoner(b)
          THEN MapSet(maps.reasoner, b.botId, ModelOverride(b.reasonerModel))
          ELSE maps.reasoner,
        notReasoner |->
          IF SetsNotReasoner(b)
          THEN MapSet(maps.notReasoner, b.botId, ModelOverride(b.notReasonerModel))
          ELSE maps.notReasoner,
        favorability |->
          IF SetsFavorability(b)
          THEN MapSet(maps.favorability, b.botId, b.favorabilityConfig[1])
          ELSE maps.favorability,
        mood |->
          IF SetsMood(b) THEN MapSet(maps.mood, b.botId, b.moodConfig[1])
          ELSE maps.mood]

RECURSIVE ApplyFrom(_, _, _)
ApplyFrom(maps, config, i) ==
  IF i > Len(config) THEN maps
  ELSE ApplyFrom(ApplyOne(maps, config[i]), config, i + 1)

\* for (const botConfig of config.bots) ...
applyBotConfigs(maps, config) == ApplyFrom(maps, config, 1)

----------------------------------------------------------------------------
(* Configuration proxy: the get trap of wrappedConfig.  target is the
   object the Proxy was constructed over. *)

ReasonerProps == {"appointModel", "baseURL", "key"}
NotReasonerProps ==
  {"not_reasoner_LLM", "not_reasoner_LLM_URL", "not_reasoner_LLM_key"}
FavorabilityProps ==
  {"prompt_0", "favorability_div_1", "prompt_1", "favorability_div_2",
   "prompt_2", "favorability_div_3", "prompt_3", "favorability_div_4",
   "prompt_4"}
MoodProps ==
  {"mood_prompt_0", "mood_div_1", "mood_prompt_1", "mood_div_2",
   "mood_prompt_2"}
PlainProps == {"temperature", "use_not_reasoner_LLM_length"}
ConfigProps ==
  ReasonerProps \cup NotReasonerProps \cup {"prompt"} \cup FavorabilityProps
    \cup MoodProps \cup PlainProps

\* which field of a model override a property reads
OverrideField(prop) ==
  IF prop \in {"appointModel", "not_reasoner_LLM"} THEN "model"
  ELSE IF prop \in {"baseURL", "not_reasoner_LLM_URL"} THEN "baseURL"
  ELSE "apiKey"

\* the if / else-if chain on prop
ChainValue(maps, currentBotId, prop, originalValue) ==
  IF prop \in ReasonerProps
  THEN LET v == IF currentBotId \in DOMAIN maps.reasoner
                THEN maps.reasoner[currentBotId][OverrideField(prop)]
                ELSE Undef
       IN IF Truthy(v) THEN v ELSE originalValue
  ELSE IF prop \in NotReasonerProps
  THEN LET v == IF currentBotId \in DOMAIN maps.notReasoner
                THEN maps.notReasoner[currentBotId][OverrideField(prop)]
                ELSE Undef
       IN IF Truthy(v) THEN v ELSE originalValue
  ELSE IF prop = "prompt"
  THEN LET botPrompt == MapGet(maps.prompts, currentBotId)
       IN IF Truthy(botPrompt) THEN botPrompt ELSE originalValue
  ELSE originalValue

\* the favorabilityConfig block
FavorabilityValue(maps, currentBotId, prop, value) ==
  IF currentBotId \in DOMAIN maps.favorability /\ prop \in FavorabilityProps
       /\ maps.favorability[currentBotId][prop] # Undef
  THEN maps.favorability[currentBotId][prop]
  ELSE value

\* the moodConfig block
MoodValue(maps, currentBotId, prop, value) ==
  IF currentBotId \in DOMAIN maps.mood /\ prop \in MoodProps
       /\ maps.mood[currentBotId][prop] # Undef
  THEN maps.mood[currentBotId][prop]
  ELSE value

\* a facade that falls back to the first tenant with a persona when no
\* tenant is current
WrappedConfigGetDefaultBot(target, maps, currentBotId, prop) ==
  LET botId == IF Truthy(currentBotId) \/ DOMAIN maps.prompts = {}
               THEN currentBotId
               ELSE CHOOSE b \in DOMAIN maps.prompts : TRUE
  IN IF ~Truthy(botId) THEN target[prop]
     ELSE MoodValue(maps, botId, prop,
            FavorabilityValue(maps, botId, prop,
              ChainValue(maps, botId, prop, target[prop])))

WrappedConfigGet(target, maps, currentBotId, prop) ==
  LET originalValue == target[prop]
  IN IF ~Truthy(currentBotId) THEN originalValue
     ELSE MoodValue(maps, currentBotId, prop,
            FavorabilityValue(maps, currentBotId, prop,
              ChainValue(maps, currentBotId, prop, originalValue)))

----------------------------------------------------------------------------
(* Entry-method patch and AsyncLocalStorage.  An argument is a JavaScript
   value: [type |-> "string"] or [type |-> "object", obj |-> fields]. *)

methodsToWrap ==
  {"generateResponse", "getChatResponse", "handleSatCommand", "buildMessages",
   "buildSystemPrompt"}

\* arg && typeof arg === 'object' && 'userId' in arg && 'selfId' in arg
SessionShaped(arg) ==
  arg.type = "object" /\ {"userId", "selfId"} \subseteq DOMAIN arg.obj

\* arg.platform || ''
FieldOrEmpty(obj, f) ==
  IF f \in DOMAIN obj /\ Truthy(obj[f]) THEN obj[f] ELSE EmptyStr

\* the loop over args: the botId of the first session-shaped argument whose
\* getBotId is truthy, '' when there is none
RECURSIVE PatchBotId(_, _)
PatchBotId(args, i) ==
  IF i > Len(args) THEN EmptyStr
  ELSE IF SessionShaped(args[i])
            /\ Truthy(getBotId(FieldOrEmpty(args[i].obj, "platform"),
                               FieldOrEmpty(args[i].obj, "selfId")))
       THEN getBotId(FieldOrEmpty(args[i].obj, "platform"),
                     FieldOrEmpty(args[i].obj, "selfId"))
       ELSE PatchBotId(args, i + 1)

\* the scope the patched method opens: Some(botId) for asyncContext.run,
\* None for the direct call
PatchScope(args) ==
  LET sessionBotId == PatchBotId(args, 1)
  IN IF Truthy(sessionBotId) THEN Some(sessionBotId) ELSE None

\* the scope the middleware opens around next()
MiddlewareScope(config, session) ==
  LET botId == getBotId(FieldOrEmpty(session, "platform"),
                        FieldOrEmpty(session, "selfId"))
  IN IF getBotConfig(config, botId) = None THEN None ELSE Some(botId)

\* the session object the middleware hands on to next(): the session it
\* was given (createVirtualSession is not called on this path)
MiddlewareSession(config, session) == [type |-> "object", obj |-> session]

\* a store in which a nested run() does not shadow the enclosing scope
StoreOfOutermost(fr) ==
  LET open == {i \in 1..Len(fr) : fr[i].scope # None}
  IN IF open = {} THEN EmptyStr ELSE fr[SetMin(open)].scope[1]

\* asyncContext.getStore() || '' for a chain of frames: the innermost open
\* scope
StoreOf(fr) ==
  LET open == {i \in 1..Len(fr) : fr[i].scope # None}
  IN IF open = {} THEN EmptyStr
     ELSE fr[CHOOSE i \in open : \A j \in open : j <= i].scope[1]

----------------------------------------------------------------------------
(* Inputs *)

PlatformX == <<"p">>
Bot1 == <<"1">>
Bot2 == <<"2">>
Bot3 == <<"3">>
\* the two configured tenants and an origin no tenant is configured for
Alice == getBotId(PlatformX, Bot1)
Bob == getBotId(PlatformX, Bot2)
Stranger == getBotId(PlatformX, Bot3)
Tenants == {Alice, Bob}

RealUser == <<"u">>
RealChannel == <<"c">>

EventOf(selfId) ==
  [platform |-> PlatformX, selfId |-> selfId, userId |-> RealUser,
   channelId |-> RealChannel, content |-> <<"h", "i">>]
Events == {EventOf(Bot1), EventOf(Bot2), EventOf(Bot3)}

\* configuration objects of the shared service and the value each holds for
\* a property
ConfigObjects == {"cfg0", "cfg1"}
ConfigValues(obj) == [p \in ConfigProps |-> <<obj, p>>]

\* the override values a tenant record can carry: i is "1" or "2"
PersonaOf(i) == <<"P", i>>
ModelOf(i) == <<"m", i>>
UrlOf(i) == <<"h", i>>
KeysOf(i) == <<"array", "k", i>>
NoKeys == <<"array">>
FavorabilityOf(i) == [p \in FavorabilityProps |-> <<"fav", i, p>>]
MoodOf(i) == [p \in MoodProps |-> <<"mood", i, p>>]
\* a favorabilityConfig / moodConfig object that sets only some fields
PartialFavorabilityOf(i) ==
  [p \in FavorabilityProps |->
     IF p \in {"prompt_0", "favorability_div_1"} THEN <<"fav", i, p>> ELSE Undef]
PartialMoodOf(i) ==
  [p \in MoodProps |-> IF p = "mood_div_1" THEN <<"mood", i, p>> ELSE Undef]

LowCostModelOf(i) == <<"n", i>>
LowCostUrlOf(i) == <<"g", i>>
LowCostKeysOf(i) == <<"array", "j", i>>

\* model override objects: each field given or left at its schema default
\* ('' for the strings, [] for the key list), the key list also absent
ModelObjects(model, url, keys) ==
  {Some([model |-> m, baseURL |-> u, apiKey |-> k]) :
     m \in {EmptyStr, model}, u \in {EmptyStr, url}, k \in {Undef, NoKeys, keys}}

BareRecord(id) ==
  [botId |-> id, prompt |-> Undef, reasonerModel |-> None,
   enableNotReasoner |-> FALSE, notReasonerModel |-> None,
   enableFavorability |-> FALSE, favorabilityConfig |-> None,
   enableMood |-> FALSE, moodConfig |-> None]

FullRecord(id, i) ==
  [botId |-> id, prompt |-> PersonaOf(i),
   reasonerModel |-> Some([model |-> ModelOf(i), baseURL |-> UrlOf(i),
                           apiKey |-> KeysOf(i)]),
   enableNotReasoner |-> TRUE,
   notReasonerModel |-> Some([model |-> LowCostModelOf(i),
                              baseURL |-> LowCostUrlOf(i),
                              apiKey |-> LowCostKeysOf(i)]),
   enableFavorability |-> TRUE, favorabilityConfig |-> Some(FavorabilityOf(i)),
   enableMood |-> TRUE, moodConfig |-> Some(MoodOf(i))]

\* tenant records that vary one group of fields of the bare or of the full
\* record
RecordsFrom(r, i) ==
  {[r EXCEPT !.prompt = v] : v \in {Undef, EmptyStr, PersonaOf(i)}}
    \cup {[r EXCEPT !.reasonerModel = o] :
            o \in ModelObjects(ModelOf(i), UrlOf(i), KeysOf(i)) \cup {None}}
    \cup {[r EXCEPT !.enableNotReasoner = e, !.notReasonerModel = o] :
            e \in BOOLEAN,
            o \in ModelObjects(LowCostModelOf(i), LowCostUrlOf(i),
                               LowCostKeysOf(i)) \cup {None}}
    \cup {[r EXCEPT !.enableFavorability = e, !.favorabilityConfig = o] :
            e \in BOOLEAN,
            o \in {None, Some(FavorabilityOf(i)), Some(PartialFavorabilityOf(i))}}
    \cup {[r EXCEPT !.enableMood = e, !.moodConfig = o] :
            e \in BOOLEAN, o \in {None, Some(MoodOf(i)), Some(PartialMoodOf(i))}}

TenantRecords(id, i) ==
  RecordsFrom(BareRecord(id), i) \cup RecordsFrom(FullRecord(id, i), i)

\* the record of the README's example: a low-cost model with a trigger
\* length
LengthOf(i) == <<"len", i>>
ReadmeRecord(id, i) ==
  [FullRecord(id, i) EXCEPT
     !.notReasonerModel = Some([model |-> LowCostModelOf(i),
                                baseURL |-> LowCostUrlOf(i),
                                apiKey |-> LowCostKeysOf(i),
                                length |-> LengthOf(i)])]

\* Scenario A: persona P1 and no model override; persona P2 and model m2
ScenarioAlice == [BareRecord(Alice) EXCEPT !.prompt = PersonaOf("1")]
ScenarioBob ==
  [BareRecord(Bob) EXCEPT
     !.prompt = PersonaOf("2"),
     !.reasonerModel = Some([model |-> ModelOf("2"), baseURL |-> EmptyStr,
                             apiKey |-> NoKeys])]

----------------------------------------------------------------------------
(* State *)

VARIABLES
  bots,                    \* config.bots
  virtualizeChannelId,     \* config.virtualizeChannelId
  phase,                   \* "constructed" before apply() has run, then "running"
  botPrompts,              \* SessionVirtualizer's maps
  botReasonerModels,
  botNotReasonerModels,
  botFavorabilityConfigs,
  botMoodConfigs,
  satWrapped,              \* index.ts satWrapped
  proxyTarget,             \* the object wrappedConfig was constructed over
  originalSATConfig,       \* SessionVirtualizer.originalSATConfig
  dbGetWrapped,            \* ctx.database.get is the wrapper
  frames,                  \* per task: the middleware frame and the entry-method
                           \* frames above it, each with the scope it opened
  event,                   \* per task: the session being handled
  lastRead,                \* the configuration read made by the last step
  session,                 \* the session the debug command works on
  facade,                  \* Some(botId) once a virtual session was created
  probe,                   \* the facade read made by the last step
  decoded,                 \* the decoding made by the last step
  dbCall,                  \* the database read made by the last step
  handleCount,             \* client Proxies the apiClient accessor has created
  lastHandle,              \* per tenant: the handle its last acquisition got
  held,                    \* per task: the client handle it holds
  acq,                     \* the client acquisition made by the last step
  builtCount,              \* per tenant: APIClient instances constructed
  lastChat,                \* the chat call made by the last step
  seen,                    \* per tenant: the channel id last read through a
                           \* facade of that tenant, with the real one
  lastSet,                 \* the facade write made by the last step
  layers,                  \* wrapSATInstance calls made on the shared service
  wrapCalls,               \* wrapDatabaseGet calls made so far
  entryCall,               \* the entry-method call observed by the last step
  accessed,                \* the accessor read observed by the last step
  sat,                     \* what ctx.get('sat') finds: "absent", "bare" (the
                           \* service without its configuration object yet)
                           \* or "ready"
  faults,                  \* the host calls that throw when made: "extend"
                           \* (ctx.model.extend), "unwrap" (ctx.database
                           \* is gone), "scan" and "poll" (clearing the timer)
  latestBots,              \* Some(tenant list) once the external
                           \* configuration was edited
  dbExtended,              \* index.ts dbExtended
  checkCount,              \* setupSATService checkCount
  checkTimer,              \* the poll timer: "none", "active" or "cleared"
  scanTimer,               \* the scan timer: "none", "pending" or "cleared"
  attempt,                 \* the tryWrapSAT call made by the last step
  botStatusMap,            \* BotManager.botStatusMap
  cleanup,                 \* what the last run of the dispose handler did
  lastReturn               \* the wrapper call completed by the last step

vars ==
  <<bots, virtualizeChannelId, phase, botPrompts, botReasonerModels,
    botNotReasonerModels, botFavorabilityConfigs, botMoodConfigs, satWrapped,
    proxyTarget, originalSATConfig, dbGetWrapped, frames, event, lastRead,
    session, facade, probe, decoded, dbCall, handleCount, lastHandle, held,
    acq, builtCount, lastChat, seen, lastSet, layers, wrapCalls, entryCall,
    accessed, sat, faults, latestBots, dbExtended, checkCount,
    checkTimer, scanTimer, attempt, botStatusMap, cleanup, lastReturn>>

clientVars == <<handleCount, lastHandle, held, acq, builtCount, lastChat>>
facadeHist == <<seen, lastSet>>
lifeVars == <<layers, wrapCalls, entryCall, accessed>>
envVars == <<sat, faults, latestBots>>
extendVars == <<dbExtended>>
timerVars == <<checkCount, checkTimer, scanTimer>>
hostVars ==
  <<envVars, extendVars, timerVars, attempt, botStatusMap, cleanup>>

configVars == <<bots, virtualizeChannelId>>
mapVars ==
  <<botPrompts, botReasonerModels, botNotReasonerModels,
    botFavorabilityConfigs, botMoodConfigs>>
satVars == <<satWrapped, proxyTarget, originalSATConfig>>
taskVars == <<frames, event>>
codecVars == <<session, facade>>
resultVars == <<lastRead, probe, decoded, dbCall>>

Maps ==
  [prompts |-> botPrompts, reasoner |-> botReasonerModels,
   notReasoner |-> botNotReasonerModels,
   favorability |-> botFavorabilityConfigs, mood |-> botMoodConfigs]

Tasks == {1, 2}
NoEvent == [platform |-> EmptyStr, selfId |-> EmptyStr, userId |-> EmptyStr,
            channelId |-> EmptyStr, content |-> EmptyStr]
NoResult == <<>>

\* a step that is not a read leaves no read behind
ClearReads ==
  /\ lastRead' = NoResult
  /\ probe' = NoResult
  /\ decoded' = NoResult
  /\ dbCall' = NoResult

\* nor a completed wrapper call
ClearResults ==
  /\ ClearReads
  /\ lastReturn' = NoResult

\* the state after new BotManager(...) and new SessionVirtualizer(...)
Loaded ==
  /\ phase = "constructed"
  /\ botPrompts = EmptyMap
  /\ botReasonerModels = EmptyMap
  /\ botNotReasonerModels = EmptyMap
  /\ botFavorabilityConfigs = EmptyMap
  /\ botMoodConfigs = EmptyMap
  /\ satWrapped = FALSE
  /\ proxyTarget = None
  /\ originalSATConfig = None
  /\ dbGetWrapped = FALSE
  /\ frames = [k \in Tasks |-> <<>>]
  /\ event = [k \in Tasks |-> NoEvent]
  /\ lastRead = NoResult
  /\ facade = None
  /\ probe = NoResult
  /\ decoded = NoResult
  /\ dbCall = NoResult
  /\ handleCount = 0
  /\ lastHandle = EmptyMap
  /\ held = [k \in Tasks |-> None]
  /\ acq = NoResult
  /\ builtCount = EmptyMap
  /\ lastChat = NoResult
  /\ seen = EmptyMap
  /\ lastSet = NoResult
  /\ layers = 0
  /\ wrapCalls = 0
  /\ entryCall = NoResult
  /\ accessed = NoResult
  /\ dbExtended = FALSE
  /\ checkCount = 0
  /\ checkTimer = "none"
  /\ scanTimer = "none"
  /\ attempt = NoResult
  /\ botStatusMap = EmptyMap
  /\ cleanup = NoResult
  /\ lastReturn = NoResult

\* the same with the shared service loaded before the plugin, a host whose
\* calls succeed and an external configuration that is the plugin's
Constructed ==
  /\ Loaded
  /\ sat = "ready"
  /\ faults = {}
  /\ latestBots = None

----------------------------------------------------------------------------------------------------------------------------------------
(* apply(): wrapDatabaseGet, applyBotConfigs, and the immediate tryWrapSAT
   with the shared service present, whose configuration is cfg0; the
   dispose handler; and apply() run again on the same shared service. *)

\* what ctx.database.get is a wrapper of after wrapDatabaseGet: the wrapper
\* calls the read path the constructor saved, whatever was installed
InstalledByWrap(installed) == TRUE

\* an unwrap that leaves the installed function in place
InstalledByUnwrapKept(installed) == installed

\* unwrapDatabaseGet puts the saved read path back
InstalledByUnwrap(installed) == FALSE

\* an accessor that hands out the object the shared service assigned last
SatConfigAccessorAssigned ==
  IF layers = 0 THEN "cfg0"
  ELSE IF originalSATConfig \notin {None, Some("cfg0"), Some("wrappedConfig")}
  THEN originalSATConfig[1]
  ELSE "wrappedConfig"

\* satInstance.config as wrapSATInstance and everyone else reads it: the
\* service's own object until a wrapSATInstance has defined the accessor,
\* the Proxy that accessor returns from then on
SatConfigAccessor == IF layers = 0 THEN "cfg0" ELSE "wrappedConfig"

\* the tenant list of the latest external configuration
Latest == IF latestBots = None THEN bots ELSE latestBots[1]

\* setupSATService maxChecks
maxChecks == 20

\* a tryWrapSAT whose try does not cover the extension: its failure ends
\* the attempt
TryWrapSATResultAborting(wrapped, extended) ==
  IF wrapped
  THEN [found |-> FALSE, extends |-> FALSE, wraps |-> FALSE, caught |-> FALSE,
        returns |-> TRUE]
  ELSE IF sat = "absent"
  THEN [found |-> FALSE, extends |-> FALSE, wraps |-> FALSE, caught |-> FALSE,
        returns |-> FALSE]
  ELSE LET aborted == ~extended /\ "extend" \in faults
       IN [found |-> TRUE, extends |-> ~extended,
           wraps |-> sat = "ready" /\ ~aborted,
           caught |-> sat = "bare" \/ aborted,
           returns |-> sat = "ready" /\ ~aborted]

\* tryWrapSAT() in a run whose satWrapped and dbExtended are wrapped and
\* extended: whether setupDatabaseExtension calls ctx.model.extend, whether
\* wrapSATInstance completes, whether it throws (new Proxy over a
\* configuration that is not an object) and what tryWrapSAT returns
TryWrapSATResult(wrapped, extended) ==
  IF wrapped
  THEN [found |-> FALSE, extends |-> FALSE, wraps |-> FALSE, caught |-> FALSE,
        returns |-> TRUE]
  ELSE IF sat = "absent"
  THEN [found |-> FALSE, extends |-> FALSE, wraps |-> FALSE, caught |-> FALSE,
        returns |-> FALSE]
  ELSE [found |-> TRUE, extends |-> ~extended, wraps |-> sat = "ready",
        caught |-> sat = "bare", returns |-> sat = "ready"]

\* setupDatabaseExtension: dbExtended is set when ctx.model.extend returns,
\* its failure being caught and logged
ExtensionLeaves(extended, r) ==
  IF r.extends THEN "extend" \notin faults ELSE extended

\* one call of tryWrapSAT made by `by`, in a run whose flags and whose
\* virtualizer's saved configuration are wrapped, extended and saved
AttachAttempt(by, wrapped, extended, saved) ==
  LET r == TryWrapSATResult(wrapped, extended)
  IN /\ attempt' = [by |-> by, service |-> sat, extendedBefore |-> extended,
                    found |-> r.found, extends |-> r.extends,
                    extendThrew |-> r.extends /\ "extend" \in faults,
                    caught |-> r.caught, returns |-> r.returns,
                    escaped |-> FALSE]
     /\ dbExtended' = ExtensionLeaves(extended, r)
     /\ satWrapped' = (wrapped \/ r.wraps)
     /\ layers' = layers + (IF r.wraps THEN 1 ELSE 0)
     /\ proxyTarget' = IF r.wraps THEN Some(SatConfigAccessor) ELSE proxyTarget
     /\ originalSATConfig' =
          IF r.wraps THEN Some(SatConfigAccessor)
          ELSE IF r.caught THEN None
          ELSE saved

\* apply(ctx, config) from the BotManager on, config.bots being config and
\* the virtualizer's maps being those of maps
Start(maps, config) ==
  /\ phase' = "running"
  /\ bots' = config
  /\ scanTimer' = "pending"
  /\ dbGetWrapped' = InstalledByWrap(dbGetWrapped)
  /\ wrapCalls' = wrapCalls + 1
  /\ LET applied == applyBotConfigs(maps, config)
     IN /\ botPrompts' = applied.prompts
        /\ botReasonerModels' = applied.reasoner
        /\ botNotReasonerModels' = applied.notReasoner
        /\ botFavorabilityConfigs' = applied.favorability
        /\ botMoodConfigs' = applied.mood
  /\ AttachAttempt("apply", FALSE, FALSE, None)
  /\ checkCount' = 0
  /\ checkTimer' = "active"
  /\ botStatusMap' = EmptyMap
  /\ entryCall' = NoResult
  /\ accessed' = NoResult
  /\ ClearResults
  /\ UNCHANGED <<envVars, cleanup, virtualizeChannelId,
                 clientVars, facadeHist, taskVars, codecVars>>

Apply ==
  /\ phase = "constructed"
  /\ Start(Maps, bots)

\* ctx.on('dispose'): unwrapDatabaseGet, then each manual dispose inside
\* its own try; the host removes the middleware and the event listeners
Dispose ==
  /\ phase = "running"
  /\ phase' = "stopped"
  /\ LET unwrapped == "unwrap" \notin faults
         scanRan == unwrapped
         pollRan == unwrapped
     IN /\ dbGetWrapped' = IF unwrapped THEN InstalledByUnwrap(dbGetWrapped)
                           ELSE dbGetWrapped
        /\ scanTimer' = IF scanRan /\ "disposeScan" \notin faults
                             /\ scanTimer = "pending"
                        THEN "cleared" ELSE scanTimer
        /\ checkTimer' = IF pollRan /\ "disposePoll" \notin faults
                              /\ checkTimer = "active"
                         THEN "cleared" ELSE checkTimer
        /\ cleanup' = [unwrapped |-> unwrapped, scanRan |-> scanRan,
                       pollRan |-> pollRan, escaped |-> ~unwrapped]
  /\ entryCall' = NoResult
  /\ accessed' = NoResult
  /\ ClearResults
  /\ UNCHANGED <<envVars, extendVars, checkCount, attempt, botStatusMap,
                 configVars, clientVars, facadeHist, mapVars,
                 satVars, taskVars, codecVars, layers, wrapCalls>>

\* the plugin is started again by the host with the latest configuration,
\* the timers of the run before it being off: a new BotManager and
\* SessionVirtualizer, then apply() as before, on the shared service as the
\* last run left it
Restart ==
  /\ phase = "stopped"
  /\ checkTimer # "active"
  /\ layers < MaxStarts
  /\ wrapCalls < MaxWraps
  /\ Start(EmptyMaps, Latest)

\* one more virtualizer.wrapDatabaseGet() while the plugin runs
WrapDatabaseGetAgain ==
  /\ phase = "running"
  /\ wrapCalls < MaxWraps
  /\ dbGetWrapped' = InstalledByWrap(dbGetWrapped)
  /\ wrapCalls' = wrapCalls + 1
  /\ entryCall' = NoResult
  /\ accessed' = NoResult
  /\ ClearResults
  /\ UNCHANGED <<hostVars, configVars, clientVars, facadeHist, phase, mapVars, satVars,
                 taskVars, codecVars, layers>>

\* tryWrapSAT() once satWrapped is set: it returns true and does nothing
TryWrapSAT ==
  /\ phase = "running"
  /\ satWrapped
  /\ accessed' = [what |-> "tryWrapSAT", value |-> <<"true">>]
  /\ entryCall' = NoResult
  /\ ClearResults
  /\ UNCHANGED <<hostVars, configVars, clientVars, facadeHist, phase, mapVars, satVars,
                 dbGetWrapped, taskVars, codecVars, layers, wrapCalls>>

\* a listener that gives up with the poll: once the poll timer is off it
\* makes no attempt
ReadyEventWhilePolling ==
  /\ phase = "running"
  /\ IF checkTimer = "active"
     THEN AttachAttempt("ready", satWrapped, dbExtended, originalSATConfig)
     ELSE /\ attempt' = [by |-> "ready", service |-> sat,
                         extendedBefore |-> dbExtended, found |-> FALSE,
                         extends |-> FALSE, extendThrew |-> FALSE,
                         caught |-> FALSE, returns |-> satWrapped,
                         escaped |-> FALSE]
          /\ UNCHANGED <<dbExtended, satVars, layers>>
  /\ entryCall' = NoResult
  /\ accessed' = NoResult
  /\ ClearResults
  /\ UNCHANGED <<envVars, timerVars, botStatusMap, cleanup, configVars, clientVars, facadeHist, phase, mapVars,
                 dbGetWrapped, taskVars, codecVars, wrapCalls>>

\* the satori-ai/ready listener
ReadyEvent ==
  /\ phase = "running"
  /\ AttachAttempt("ready", satWrapped, dbExtended, originalSATConfig)
  /\ entryCall' = NoResult
  /\ accessed' = NoResult
  /\ ClearResults
  /\ UNCHANGED <<envVars, timerVars, botStatusMap, cleanup, configVars, clientVars, facadeHist, phase, mapVars,
                 dbGetWrapped, taskVars, codecVars, wrapCalls>>

\* a poll that is cancelled by a successful attach only
PollTickNoLimit ==
  /\ checkTimer = "active"
  /\ checkCount' = checkCount + 1
  /\ AttachAttempt("poll", satWrapped, dbExtended, originalSATConfig)
  /\ checkTimer' =
       IF TryWrapSATResult(satWrapped, dbExtended).returns
       THEN "cleared" ELSE checkTimer
  /\ entryCall' = NoResult
  /\ accessed' = NoResult
  /\ ClearResults
  /\ UNCHANGED <<envVars, scanTimer, botStatusMap, cleanup, configVars, clientVars, facadeHist, phase, mapVars,
                 dbGetWrapped, taskVars, codecVars, wrapCalls>>

\* one tick of the setInterval callback of setupSATService
PollTick ==
  /\ checkTimer = "active"
  /\ checkCount' = checkCount + 1
  /\ AttachAttempt("poll", satWrapped, dbExtended, originalSATConfig)
  /\ checkTimer' =
       IF TryWrapSATResult(satWrapped, dbExtended).returns
            \/ checkCount + 1 >= maxChecks
       THEN "cleared" ELSE checkTimer
  /\ entryCall' = NoResult
  /\ accessed' = NoResult
  /\ ClearResults
  /\ UNCHANGED <<envVars, scanTimer, botStatusMap, cleanup, configVars, clientVars, facadeHist, phase, mapVars,
                 dbGetWrapped, taskVars, codecVars, wrapCalls>>

\* the host loads the shared service, or the service gets its configuration
ServiceAppears(state) ==
  /\ \/ sat = "absent" /\ state \in {"bare", "ready"}
     \/ sat = "bare" /\ state = "ready"
  /\ sat' = state
  /\ entryCall' = NoResult
  /\ accessed' = NoResult
  /\ ClearResults
  /\ UNCHANGED <<faults, latestBots, extendVars, timerVars, attempt,
                 botStatusMap, cleanup, configVars, clientVars,
                 facadeHist, phase, mapVars, satVars, dbGetWrapped, taskVars,
                 codecVars, layers, wrapCalls>>

\* the scan timer fires: scanFromMBC refreshes the botId options of the
\* configuration schema
ScanTimerFires ==
  /\ scanTimer = "pending"
  /\ scanTimer' = "fired"
  /\ entryCall' = NoResult
  /\ accessed' = NoResult
  /\ ClearResults
  /\ UNCHANGED <<envVars, extendVars, checkCount, checkTimer, attempt,
                 botStatusMap, cleanup, configVars, clientVars,
                 facadeHist, phase, mapVars, satVars, dbGetWrapped, taskVars,
                 codecVars, layers, wrapCalls>>

\* Array.from(this.botStatusMap.values())
getAllBotStatus(map) == {map[b] : b \in DOMAIN map}

\* the command satori-charon.status: the entries it lists, none when it
\* answers that no bot is configured
StatusQuery ==
  /\ phase = "running"
  /\ accessed' = [what |-> "status", value |-> getAllBotStatus(botStatusMap)]
  /\ entryCall' = NoResult
  /\ ClearResults
  /\ UNCHANGED <<hostVars, configVars, clientVars, facadeHist, phase, mapVars,
                 satVars, dbGetWrapped, taskVars, codecVars, layers, wrapCalls>>

\* the external configuration is edited: its tenant list becomes config
ConfigEdited(config) ==
  /\ Latest # config
  /\ latestBots' = Some(config)
  /\ entryCall' = NoResult
  /\ accessed' = NoResult
  /\ ClearResults
  /\ UNCHANGED <<sat, faults, extendVars, timerVars, attempt, botStatusMap,
                 cleanup, configVars, clientVars, facadeHist,
                 phase, mapVars, satVars, dbGetWrapped, taskVars, codecVars,
                 layers, wrapCalls>>

\* the command satori-charon.reload: its action returns a hint
ReloadHint == <<"hint">>

Reload ==
  /\ phase = "running"
  /\ accessed' = [what |-> "reload", value |-> ReloadHint]
  /\ entryCall' = NoResult
  /\ ClearResults
  /\ UNCHANGED <<hostVars, configVars, clientVars, facadeHist, phase, mapVars,
                 satVars, dbGetWrapped, taskVars, codecVars, layers, wrapCalls>>

\* the asyncContext.run calls one call of an entry method goes through,
\* the method having been patched n times over
RECURSIVE ScopesOpenedBy(_, _)
ScopesOpenedBy(args, n) ==
  IF n = 0 THEN 0
  ELSE (IF PatchScope(args) # None THEN 1 ELSE 0) + ScopesOpenedBy(args, n - 1)

\* satInstance[methodName](...args), called by the shared service itself
InvokeEntry(methodName, args) ==
  /\ methodName \in methodsToWrap
  /\ entryCall' = [args |-> args, scopes |-> ScopesOpenedBy(args, layers)]
  /\ accessed' = NoResult
  /\ ClearResults
  /\ UNCHANGED <<hostVars, configVars, clientVars, facadeHist, phase, mapVars, satVars,
                 dbGetWrapped, taskVars, codecVars, layers, wrapCalls>>

\* satInstance.config read for the object it returns
ReadConfigAccessor ==
  /\ accessed' = [what |-> "config", value |-> <<SatConfigAccessor>>]
  /\ entryCall' = NoResult
  /\ ClearResults
  /\ UNCHANGED <<hostVars, configVars, clientVars, facadeHist, phase, mapVars, satVars,
                 dbGetWrapped, taskVars, codecVars, layers, wrapCalls>>

\* virtualizer.setBotPrompt(botId, prompt)
SetBotPrompt(botId, prompt) ==
  /\ phase = "running"
  /\ MapGet(botPrompts, botId) # prompt
  /\ botPrompts' = MapSet(botPrompts, botId, prompt)
  /\ entryCall' = NoResult
  /\ accessed' = NoResult
  /\ ClearResults
  /\ UNCHANGED <<hostVars, configVars, clientVars, facadeHist, phase,
                 botReasonerModels, botNotReasonerModels,
                 botFavorabilityConfigs, botMoodConfigs, satVars,
                 dbGetWrapped, taskVars, codecVars, layers, wrapCalls>>

\* the set accessor wrapSATInstance defines for satInstance.config
SetConfig(value) ==
  /\ satWrapped
  /\ originalSATConfig # Some(value)
  /\ originalSATConfig' = Some(value)
  /\ ClearResults
  /\ UNCHANGED <<hostVars, configVars, clientVars, facadeHist, lifeVars,
                 phase, mapVars, satWrapped, proxyTarget,
                 dbGetWrapped, taskVars, codecVars>>

----------------------------------------------------------------------------
(* Handling of one event by task k *)

MethodDepth(k) == Cardinality({i \in 1..Len(frames[k]) : frames[k][i].kind = "method"})

\* ctx.middleware(async (session, next) => ...) up to its await next()
Middleware(k, ev) ==
  /\ phase = "running"
  /\ frames[k] = <<>>
  /\ event' = [event EXCEPT ![k] = ev]
  /\ frames' = [frames EXCEPT ![k] =
       <<[kind |-> "middleware", scope |-> MiddlewareScope(bots, ev),
          args |-> <<MiddlewareSession(bots, ev)>>]>>]
  /\ ClearResults
  /\ UNCHANGED <<hostVars, configVars, clientVars, facadeHist, lifeVars,
                 phase, mapVars, satVars, dbGetWrapped, codecVars>>

\* the function wrapSATInstance puts in place of satInstance[methodName]
CallEntry(k, methodName, args) ==
  /\ satWrapped
  /\ methodName \in methodsToWrap
  /\ frames[k] # <<>>
  /\ MethodDepth(k) < MaxDepth
  /\ frames' = [frames EXCEPT ![k] =
       Append(@, [kind |-> "method", scope |-> PatchScope(args), args |-> args])]
  /\ ClearResults
  /\ UNCHANGED <<hostVars, configVars, clientVars, facadeHist, lifeVars,
                 phase, mapVars, satVars, dbGetWrapped, event,
                 codecVars>>

\* what a call settles with: a value returned or a failure thrown
Outcomes == {[kind |-> "value", of |-> <<"r">>], [kind |-> "failure", of |-> <<"e">>]}

\* return originalMethod.apply(this, args), inside asyncContext.run or not
PatchYields(scoped, o) == o

\* return next(), or inside asyncContext.run: return await next()
MiddlewareYields(scoped, o) == o

\* the original method returns (or fails): its scope ends
ReturnEntry(k) ==
  /\ Len(frames[k]) > 1
  /\ frames' = [frames EXCEPT ![k] = SubSeq(@, 1, Len(@) - 1)]
  /\ \E o \in Outcomes :
       LET scoped == frames[k][Len(frames[k])].scope # None
       IN lastReturn' = [wrapper |-> "method", scoped |-> scoped, calls |-> 1,
                         original |-> o, yielded |-> PatchYields(scoped, o)]
  /\ ClearReads
  /\ UNCHANGED <<hostVars, configVars, clientVars, facadeHist, lifeVars,
                 phase, mapVars, satVars, dbGetWrapped, event,
                 codecVars>>

\* next() has settled and the middleware returns its result
MiddlewareReturn(k) ==
  /\ Len(frames[k]) = 1
  /\ frames' = [frames EXCEPT ![k] = <<>>]
  /\ event' = [event EXCEPT ![k] = NoEvent]
  /\ \E o \in Outcomes :
       LET scoped == frames[k][1].scope # None
       IN lastReturn' = [wrapper |-> "middleware", scoped |-> scoped,
                         calls |-> 1, original |-> o,
                         yielded |-> MiddlewareYields(scoped, o)]
  /\ ClearReads
  /\ UNCHANGED <<hostVars, configVars, clientVars, facadeHist, lifeVars,
                 phase, mapVars, satVars, dbGetWrapped, codecVars>>

\* a current tenant kept in one variable shared by all tasks instead of the
\* AsyncLocalStorage: whichever task opened a scope first is seen by all
getCurrentBotIdShared(k) ==
  LET busy == {j \in Tasks : StoreOf(frames[j]) # EmptyStr}
  IN IF busy = {} THEN EmptyStr ELSE StoreOf(frames[SetMin(busy)])

\* getCurrentBotId() in task k
getCurrentBotId(k) == StoreOf(frames[k])

\* satInstance.config[prop] read by task k
ConfigRead(k, prop) ==
  /\ satWrapped
  /\ frames[k] # <<>>
  /\ lastRead' =
       [task |-> k, bot |-> getCurrentBotId(k), prop |-> prop,
        value |-> WrappedConfigGet(ConfigValues(proxyTarget[1]), Maps,
                                   getCurrentBotId(k), prop)]
  /\ probe' = NoResult
  /\ decoded' = NoResult
  /\ dbCall' = NoResult
  /\ lastReturn' = NoResult
  /\ UNCHANGED <<hostVars, configVars, clientVars, facadeHist, lifeVars,
                 phase, mapVars, satVars, dbGetWrapped, taskVars,
                 codecVars>>

\* satInstance.config[prop] read outside the handling of any event
BackgroundRead(prop) ==
  /\ satWrapped
  /\ lastRead' =
       [task |-> 0, bot |-> EmptyStr, prop |-> prop,
        value |-> WrappedConfigGet(ConfigValues(proxyTarget[1]), Maps,
                                   EmptyStr, prop)]
  /\ probe' = NoResult
  /\ decoded' = NoResult
  /\ dbCall' = NoResult
  /\ lastReturn' = NoResult
  /\ UNCHANGED <<hostVars, configVars, clientVars, facadeHist, lifeVars,
                 phase, mapVars, satVars, dbGetWrapped, taskVars,
                 codecVars>>

----------------------------------------------------------------------------
(* The debug command satori-charon.test, the codec and the database read *)

\* botManager.getBotId(session.platform || '', session.selfId || '') and
\* virtualizer.createVirtualSession(session, botId)
CreateVirtualSession ==
  /\ phase = "running"
  /\ facade = None
  /\ facade' = Some(getBotId(FieldOrEmpty(session, "platform"),
                             FieldOrEmpty(session, "selfId")))
  /\ ClearResults
  /\ UNCHANGED <<hostVars, configVars, clientVars, facadeHist, lifeVars,
                 phase, mapVars, satVars, dbGetWrapped, taskVars,
                 session>>

\* virtualSession[prop]
FacadeGet(prop) ==
  /\ facade # None
  /\ LET value == VirtualSessionGet(session, facade[1], virtualizeChannelId,
                                    botPrompts, prop)
     IN /\ probe' = [prop |-> prop, value |-> value]
        /\ seen' = IF prop = "channelId"
                   THEN MapSet(seen, facade[1],
                               [real |-> session.channelId, read |-> value])
                   ELSE seen
  /\ lastSet' = NoResult
  /\ lastRead' = NoResult
  /\ decoded' = NoResult
  /\ dbCall' = NoResult
  /\ lastReturn' = NoResult
  /\ UNCHANGED <<hostVars, configVars, clientVars, lifeVars, phase, mapVars, satVars,
                 dbGetWrapped, taskVars, codecVars>>

\* virtualSession[prop] = value
FacadeSet(prop, value) ==
  /\ facade # None
  /\ session' = VirtualSessionSet(session, facade[1], virtualizeChannelId,
                                  prop, value)
  /\ lastSet' = [prop |-> prop, value |-> value]
  /\ ClearResults
  /\ UNCHANGED <<hostVars, configVars, clientVars, lifeVars, phase, mapVars, satVars,
                 dbGetWrapped, taskVars, facade, seen>>

\* the command's action has returned and the command is issued again, in a
\* message to the bot of ev
NextCommand(ev) ==
  /\ facade # None
  /\ facade' = None
  /\ session' = ev
  /\ lastSet' = NoResult
  /\ ClearResults
  /\ UNCHANGED <<hostVars, configVars, clientVars, lifeVars, phase, mapVars, satVars,
                 dbGetWrapped, taskVars, seen>>

\* the identities at hand: the real ones of the session and the one the
\* facade has just returned
IdentitiesAtHand ==
  {session.userId, session.channelId}
    \cup (IF probe # NoResult /\ probe.prop \in {"userId", "channelId"}
          THEN {probe.value} ELSE {})

\* resolveRealUserId, resolveRealChannelId and extractBotId of one string
Decode(v) ==
  /\ phase = "running"
  /\ decoded' = [of |-> v, user |-> resolveRealUserId(v),
                 channel |-> resolveRealChannelId(v), bot |-> extractBotId(v)]
  /\ lastRead' = NoResult
  /\ probe' = NoResult
  /\ dbCall' = NoResult
  /\ lastReturn' = NoResult
  /\ UNCHANGED <<hostVars, configVars, clientVars, facadeHist, lifeVars,
                 phase, mapVars, satVars, dbGetWrapped, taskVars,
                 codecVars>>

UsersName == <<"n">>
ExtraArgs == {<<>>, <<"cursor">>}

\* the queries a caller makes with identity v: the identity filter alone,
\* with another field, and no identity filter
QueriesWith(v) ==
  {[userid |-> v], [userid |-> v, usersname |-> UsersName],
   [usersname |-> UsersName], [userid |-> Undef, usersname |-> UsersName]}

\* the call ctx.database.get(table, query, ...args) makes on the original
\* read path, or the failure it throws before making one
ReadMade(table, query, args) ==
  IF dbGetWrapped THEN WrappedDatabaseGet(table, query, args)
  ELSE [table |-> table, query |-> query, args |-> args]

\* ctx.database.get(table, query, ...args), the original read path settling
\* with o when it is called
DatabaseGet(table, query, args) ==
  /\ dbCall' = [wrapped |-> dbGetWrapped,
                given |-> [table |-> table, query |-> query, args |-> args],
                made |-> ReadMade(table, query, args)]
  /\ \E o \in Outcomes :
       LET threw == ReadMade(table, query, args) = TypeErrorThrown
       IN lastReturn' =
            [wrapper |-> "database", scoped |-> FALSE,
             calls |-> IF threw THEN 0 ELSE 1, original |-> o,
             yielded |-> IF threw
                         THEN [kind |-> "failure", of |-> TypeErrorThrown.threw]
                         ELSE o]
  /\ lastRead' = NoResult
  /\ probe' = NoResult
  /\ decoded' = NoResult
  /\ UNCHANGED <<hostVars, configVars, clientVars, facadeHist, lifeVars,
                 phase, mapVars, satVars, dbGetWrapped, taskVars,
                 codecVars>>

----------------------------------------------------------------------------
(* The apiClient accessor wrapSATInstance defines.  A handle is the
   original client (proxy 0) or the n-th Proxy the accessor created, with
   the botId its closure captured. *)

originalAPIClient == [proxy |-> 0, botId |-> EmptyStr]

\* the get accessor: the original client without a current tenant, else a
\* new Proxy over it
ApiClientGet(botId, created) ==
  IF ~Truthy(botId) THEN originalAPIClient
  ELSE [proxy |-> created + 1, botId |-> botId]

\* map.get(botId)?.f || fallback
FieldOr(map, botId, f, fallback) ==
  IF botId \in DOMAIN map /\ Truthy(map[botId][f]) THEN map[botId][f]
  ELSE fallback

\* dynamicConfig: the overrides of botId over self.originalSATConfig
DynamicConfig(maps, botId, originalConfig) ==
  LET reasoner == maps.reasoner
      notReasoner == maps.notReasoner
  IN [baseURL |-> FieldOr(reasoner, botId, "baseURL", originalConfig["baseURL"]),
      keys |-> FieldOr(reasoner, botId, "apiKey", originalConfig["key"]),
      appointModel |->
        FieldOr(reasoner, botId, "model", originalConfig["appointModel"]),
      not_reasoner_LLM_URL |->
        FieldOr(notReasoner, botId, "baseURL",
                originalConfig["not_reasoner_LLM_URL"]),
      not_reasoner_LLM |->
        FieldOr(notReasoner, botId, "model", originalConfig["not_reasoner_LLM"]),
      not_reasoner_LLM_key |->
        FieldOr(notReasoner, botId, "apiKey",
                originalConfig["not_reasoner_LLM_key"]),
      use_not_reasoner_LLM_length |->
        originalConfig["use_not_reasoner_LLM_length"],
      temperature |-> originalConfig["temperature"]]

\* a chat that constructs a client for every tenant, with or without
\* model overrides
ClientChatAlwaysBuilds(handle, maps, originalConfig) ==
  IF handle.proxy = 0 THEN None
  ELSE Some(DynamicConfig(maps, handle.botId, originalConfig))

\* handle.chat(...): None when target.chat serves the call, else the
\* configuration of the APIClient constructed to serve it
ClientChat(handle, maps, originalConfig) ==
  IF handle.proxy = 0 THEN None
  ELSE IF /\ handle.botId \notin DOMAIN maps.reasoner
          /\ handle.botId \notin DOMAIN maps.notReasoner
       THEN None
  ELSE Some(DynamicConfig(maps, handle.botId, originalConfig))

\* this.apiClient read by task k
AcquireClient(k) ==
  /\ satWrapped
  /\ frames[k] # <<>>
  /\ handleCount < MaxHandles
  /\ LET botId == getCurrentBotId(k)
         handle == ApiClientGet(botId, handleCount)
     IN /\ held' = [held EXCEPT ![k] = Some(handle)]
        /\ handleCount' = IF handle.proxy = 0 THEN handleCount ELSE handle.proxy
        /\ acq' = [task |-> k, bot |-> botId, handle |-> handle,
                   previous |-> IF botId \in DOMAIN lastHandle
                                THEN Some(lastHandle[botId]) ELSE None]
        /\ lastHandle' = MapSet(lastHandle, botId, handle)
  /\ lastChat' = NoResult
  /\ ClearResults
  /\ UNCHANGED <<hostVars, configVars, phase, mapVars, satVars, dbGetWrapped, taskVars,
                 codecVars, builtCount, facadeHist, lifeVars>>

\* the handle task k holds is called: handle.chat(...), from whatever
\* continuation task k is in
Chat(k) ==
  /\ held[k] # None
  /\ LET handle == held[k][1]
         built == ClientChat(handle, Maps, ConfigValues(originalSATConfig[1]))
         n == IF handle.botId \in DOMAIN builtCount
              THEN builtCount[handle.botId] ELSE 0
     IN /\ built # None => n < MaxChats
        /\ lastChat' = [task |-> k, handle |-> handle,
                        current |-> getCurrentBotId(k), built |-> built]
        /\ builtCount' = IF built = None THEN builtCount
                         ELSE MapSet(builtCount, handle.botId, n + 1)
  /\ acq' = NoResult
  /\ ClearResults
  /\ UNCHANGED <<hostVars, configVars, phase, mapVars, satVars, dbGetWrapped, taskVars,
                 codecVars, handleCount, lastHandle, held, facadeHist, lifeVars>>

----------------------------------------------------------------------------
(* Specifications *)

PlainArg == [type |-> "string"]
UserRecordArg == [type |-> "object", obj |-> [userId |-> RealUser]]
SessionArg(ev) == [type |-> "object", obj |-> ev]

\* the session task k was handed by the middleware
HandedSession(k) == frames[k][1].args[1]

SessionArgs(k) == {<<HandedSession(k)>>}
OwnArgs(k) == SessionArgs(k) \cup {<<PlainArg>>}
AnyArgs(k) ==
  OwnArgs(k) \cup {<<PlainArg, HandedSession(k)>>, <<UserRecordArg>>}
    \cup {<<SessionArg(e)>> : e \in Events}
    \cup {<<UserRecordArg, SessionArg(e)>> : e \in Events}

ScenarioProps == {"prompt", "appointModel", "temperature"}
\* the scenario's properties and one more of each class
InterleavedProps ==
  ScenarioProps \cup {"baseURL", "key", "not_reasoner_LLM", "prompt_0", "mood_div_1"}

NoSession == NoEvent

\* Two events handled as interleaved tasks
Init ==
  /\ Constructed
  /\ bots \in {<<a, b>> :
       a \in {BareRecord(Alice), ScenarioAlice, FullRecord(Alice, "1")},
       b \in {BareRecord(Bob), ScenarioBob, FullRecord(Bob, "2")}}
  /\ virtualizeChannelId = FALSE
  /\ session = NoSession

TaskStep(k) ==
  \/ \E ev \in Events : Middleware(k, ev)
  \/ /\ frames[k] # <<>>
     /\ \E m \in methodsToWrap, args \in OwnArgs(k) : CallEntry(k, m, args)
  \/ ReturnEntry(k)
  \/ MiddlewareReturn(k)
  \/ \E p \in InterleavedProps : ConfigRead(k, p)

Next ==
  \/ Apply
  \/ \E k \in Tasks : TaskStep(k)

Spec == Init /\ [][Next]_vars

\* One event, entry methods called with every kind of argument
ServiceStep ==
  \/ \E ev \in Events : Middleware(1, ev)
  \/ /\ frames[1] # <<>>
     /\ \E m \in methodsToWrap, args \in AnyArgs(1) : CallEntry(1, m, args)
  \/ ReturnEntry(1)
  \/ MiddlewareReturn(1)
  \/ \E p \in ScenarioProps : ConfigRead(1, p)

NextService ==
  \/ Apply
  \/ ServiceStep

SpecService == Init /\ [][NextService]_vars

\* One event, every tenant record, every configuration property
InitConfig ==
  /\ Constructed
  /\ bots \in {<<a, b>> : a \in TenantRecords(Alice, "1"),
                          b \in {FullRecord(Bob, "2")}}
  /\ virtualizeChannelId = FALSE
  /\ session = NoSession

ConfigStep ==
  \/ \E ev \in Events : Middleware(1, ev)
  \/ /\ frames[1] # <<>>
     /\ \E m \in methodsToWrap, args \in SessionArgs(1) : CallEntry(1, m, args)
  \/ ReturnEntry(1)
  \/ MiddlewareReturn(1)
  \/ \E p \in ConfigProps : ConfigRead(1, p)
  \/ \E p \in ConfigProps : BackgroundRead(p)
  \/ \E c \in ConfigObjects : SetConfig(c)

NextConfig ==
  \/ Apply
  \/ ConfigStep

SpecConfig == InitConfig /\ [][NextConfig]_vars

\* The codec, the session facade and the database read
IdChars == {"u", "_", LF}
RealIds == SeqsUpTo(IdChars, MaxIdLen)
CodecPlatforms == {PlatformX, <<"p", "_">>}

InitCodec ==
  /\ Constructed
  /\ bots = <<ScenarioAlice, ScenarioBob>>
  /\ virtualizeChannelId \in BOOLEAN
  /\ session \in {[platform |-> pl, selfId |-> Bot1, userId |-> u,
                   channelId |-> RealChannel, content |-> <<"h", "i">>] :
                    pl \in CodecPlatforms, u \in RealIds}

NextCodec ==
  \/ Apply
  \/ CreateVirtualSession
  \/ \E prop \in SessionProps \cup ProbeProps : FacadeGet(prop)
  \/ \E v \in IdentitiesAtHand : Decode(v)
  \/ \E table \in {TenantTable, OtherTable}, v \in IdentitiesAtHand,
        args \in ExtraArgs :
       \E query \in QueriesWith(v) : DatabaseGet(table, query, args)

SpecCodec == InitCodec /\ [][NextCodec]_vars

\* The configuration read and the client of one tenant side by side: one
\* event whose task reads the model properties, acquires the client and
\* chats through it, while the shared service assigns its configuration
ModelProps == ReasonerProps \cup NotReasonerProps

\* a model override as the schema fills it in when only the model name is
\* given: baseURL '' and apiKey []
SchemaDefaults(model) ==
  Some([model |-> model, baseURL |-> EmptyStr, apiKey |-> NoKeys])

\* tenant records with no, a defaulted or a complete override of either
\* model
ModelRecords(id, i) ==
  {[BareRecord(id) EXCEPT !.reasonerModel = r, !.enableNotReasoner = TRUE,
                          !.notReasonerModel = n] :
     r \in {None, SchemaDefaults(ModelOf(i)),
            FullRecord(id, i).reasonerModel},
     n \in {None, SchemaDefaults(LowCostModelOf(i)),
            FullRecord(id, i).notReasonerModel}}

InitAgree ==
  /\ Constructed
  /\ bots \in {<<a, BareRecord(Bob)>> : a \in ModelRecords(Alice, "1")}
  /\ virtualizeChannelId = FALSE
  /\ session = NoSession

NextAgree ==
  \/ Apply
  \/ \E ev \in Events : Middleware(1, ev)
  \/ MiddlewareReturn(1)
  \/ \E p \in ModelProps : ConfigRead(1, p)
  \/ AcquireClient(1)
  \/ Chat(1)
  \/ \E c \in ConfigObjects : SetConfig(c)

SpecAgree == InitAgree /\ [][NextAgree]_vars

\* The codec on the tenant ids the registry produces: one configured tenant
\* whose platform and self identity may hold the separator, and a message to
\* its bot from a user whose identity has no line terminator
SeparatorPlatforms == {PlatformX, <<"p", "_">>}
SeparatorSelfIds == {Bot1, <<"1", "_", "2">>}
SeparatorUsers == {<<"u">>, <<"2", "_", "u">>}

InitTenantIds ==
  /\ Constructed
  /\ virtualizeChannelId \in BOOLEAN
  /\ \E pl \in SeparatorPlatforms, id \in SeparatorSelfIds,
        u \in SeparatorUsers :
       /\ bots = <<BareRecord(getBotId(pl, id))>>
       /\ session = [platform |-> pl, selfId |-> id, userId |-> u,
                     channelId |-> RealChannel, content |-> <<"h", "i">>]

NextTenantIds ==
  \/ Apply
  \/ CreateVirtualSession
  \/ \E prop \in {"userId", "channelId"} : FacadeGet(prop)
  \/ \E v \in IdentitiesAtHand : Decode(v)
  \/ \E v \in IdentitiesAtHand, args \in ExtraArgs :
       \E query \in QueriesWith(v) : DatabaseGet(TenantTable, query, args)

SpecTenantIds == InitTenantIds /\ [][NextTenantIds]_vars

\* One event whose task acquires the client and chats through it, inside
\* and outside entry methods called with sessions of any origin
InitClient ==
  /\ Constructed
  /\ bots \in {<<a, ScenarioBob>> : a \in {ScenarioAlice, FullRecord(Alice, "1")}}
  /\ virtualizeChannelId = FALSE
  /\ session = NoSession

ClientStep ==
  \/ \E ev \in Events : Middleware(1, ev)
  \/ /\ frames[1] # <<>>
     /\ \E m \in methodsToWrap, e \in Events : CallEntry(1, m, <<SessionArg(e)>>)
  \/ ReturnEntry(1)
  \/ MiddlewareReturn(1)
  \/ AcquireClient(1)
  \/ Chat(1)

NextClient ==
  \/ Apply
  \/ ClientStep

SpecClient == InitClient /\ [][NextClient]_vars

\* The session facade read and written, for the bots of two tenants
WrittenUser == <<"v">>
\* the values written through a facade of tenant t: a real identity, one
\* virtualized for t, one virtualized for the other tenant, one prefixed twice
WriteValues(t) ==
  {WrittenUser, Prefix(t) \o WrittenUser, Prefix(t) \o Prefix(t) \o WrittenUser}
    \cup {Prefix(o) \o WrittenUser : o \in Tenants \ {t}}
WrittenProps == {"userId", "channelId", "content"}

InitFacade ==
  /\ Constructed
  /\ bots = <<ScenarioAlice, ScenarioBob>>
  /\ virtualizeChannelId \in BOOLEAN
  /\ session \in {EventOf(Bot1), EventOf(Bot2)}

NextFacade ==
  \/ Apply
  \/ CreateVirtualSession
  \/ \E prop \in SessionProps \cup ProbeProps : FacadeGet(prop)
  \/ /\ facade # None
     /\ \E prop \in WrittenProps, value \in WriteValues(facade[1]) :
          FacadeSet(prop, value)
  \/ \E ev \in {EventOf(Bot1), EventOf(Bot2)} : NextCommand(ev)

SpecFacade == InitFacade /\ [][NextFacade]_vars

\* The plugin started, stopped and started again on one shared service
VirtualAlice == Prefix(Alice) \o RealUser

InitLifecycle ==
  /\ Constructed
  /\ bots = <<ScenarioAlice, ScenarioBob>>
  /\ virtualizeChannelId = FALSE
  /\ session = NoSession

NextLifecycle ==
  \/ Apply
  \/ Dispose
  \/ Restart
  \/ WrapDatabaseGetAgain
  \/ TryWrapSAT
  \/ \E m \in methodsToWrap, args \in {<<PlainArg>>} \cup {<<SessionArg(e)>> : e \in Events} :
       InvokeEntry(m, args)
  \/ ReadConfigAccessor
  \/ \E table \in {TenantTable, OtherTable}, v \in {RealUser, VirtualAlice},
        args \in ExtraArgs :
       \E query \in QueriesWith(v) : DatabaseGet(table, query, args)

SpecLifecycle == InitLifecycle /\ [][NextLifecycle]_vars

\* The plugin started before, with or after the shared service, on a host
\* whose calls may throw
HostFaults == {"extend", "unwrap", "disposeScan", "disposePoll"}

InitAttach ==
  /\ Loaded
  /\ sat \in {"absent", "bare", "ready"}
  /\ faults \in SUBSET HostFaults
  /\ latestBots = None
  /\ bots = <<ScenarioAlice>>
  /\ virtualizeChannelId = FALSE
  /\ session = NoSession

NextAttach ==
  \/ Apply
  \/ PollTick
  \/ ReadyEvent
  \/ \E state \in {"bare", "ready"} : ServiceAppears(state)
  \/ ScanTimerFires
  \/ StatusQuery
  \/ Dispose
  \/ Restart

SpecAttach == InitAttach /\ [][NextAttach]_vars

\* The same with the scheduling of the host: apply() is run once the plugin
\* is loaded, and the callback of setInterval runs again as long as the
\* interval is not cleared
SpecAttachLive ==
  /\ InitAttach
  /\ [][NextAttach]_vars
  /\ WF_vars(Apply)
  /\ WF_vars(PollTick)

\* Scenario D: the plugin runs with the first tenant only, then the
\* external configuration gets the second
InitReload ==
  /\ Constructed
  /\ bots = <<ScenarioAlice>>
  /\ virtualizeChannelId = FALSE
  /\ session = NoSession

NextReload ==
  \/ Apply
  \/ ConfigEdited(<<ScenarioAlice, ScenarioBob>>)
  \/ Reload
  \/ \E k \in Tasks :
       \/ \E ev \in Events : Middleware(k, ev)
       \/ \E m \in methodsToWrap : CallEntry(k, m, <<SessionArg(event[k])>>)
       \/ \E prop \in ScenarioProps : ConfigRead(k, prop)
       \/ ReturnEntry(k)
       \/ MiddlewareReturn(k)
  \/ Dispose
  \/ Restart

SpecReload == InitReload /\ [][NextReload]_vars

\* Calls through the three wrappers, the originals returning or failing,
\* the reads made with a string, a list or a comparison object as identity
\* filter
ListFilter(v) == <<"array">> \o v
InFilter(v) == <<"object", "$", "i", "n">> \o v
ReadFilters ==
  {RealUser, VirtualAlice, ListFilter(VirtualAlice), InFilter(VirtualAlice)}

InitOutcome ==
  /\ Constructed
  /\ bots = <<ScenarioAlice, ScenarioBob>>
  /\ virtualizeChannelId = FALSE
  /\ session = NoSession

NextOutcome ==
  \/ Apply
  \/ \E ev \in Events : Middleware(1, ev)
  \/ /\ frames[1] # <<>>
     /\ \E m \in methodsToWrap, args \in AnyArgs(1) : CallEntry(1, m, args)
  \/ ReturnEntry(1)
  \/ MiddlewareReturn(1)
  \/ \E table \in {TenantTable, OtherTable}, v \in ReadFilters :
       \E query \in QueriesWith(v) : DatabaseGet(table, query, <<>>)

SpecOutcome == InitOutcome /\ [][NextOutcome]_vars

\* One task under a tenant whose low-cost model is configured as in the
\* README
LengthProps == NotReasonerProps \cup {"use_not_reasoner_LLM_length"}

InitLength ==
  /\ Constructed
  /\ bots = <<ScenarioAlice, ReadmeRecord(Bob, "2")>>
  /\ virtualizeChannelId = FALSE
  /\ session = NoSession

NextLength ==
  \/ Apply
  \/ \E ev \in Events : Middleware(1, ev)
  \/ \E prop \in LengthProps : ConfigRead(1, prop)
  \/ AcquireClient(1)
  \/ Chat(1)
  \/ MiddlewareReturn(1)

SpecLength == InitLength /\ [][NextLength]_vars

\* The three decoders on strings with and without the marker, a tenant
\* segment, the separator and a real identity
DecodeInputs ==
  {pre \o tenant \o sep \o rest :
     pre \in {EmptyStr, Marker, <<"s", "a", "t">>, <<"x">> \o Marker},
     tenant \in {EmptyStr, <<"p">>, Alice},
     sep \in {EmptyStr, <<"_">>},
     rest \in {EmptyStr, RealUser, <<"u", "_", "v">>, <<"u", LF, "v">>, <<LF>>}}

InitDecode ==
  /\ Constructed
  /\ bots = <<ScenarioAlice, ScenarioBob>>
  /\ virtualizeChannelId \in BOOLEAN
  /\ session = NoSession

NextDecode ==
  \/ Apply
  \/ \E v \in DecodeInputs : Decode(v)

SpecDecode == InitDecode /\ [][NextDecode]_vars

\* The configuration accessor read between assignments by the shared
\* service, registrations of personas and the scopes of one task
InitAccessor ==
  /\ Constructed
  /\ bots = <<ScenarioAlice, ScenarioBob>>
  /\ virtualizeChannelId = FALSE
  /\ session = NoSession

NextAccessor ==
  \/ Apply
  \/ \E value \in ConfigObjects : SetConfig(value)
  \/ \E t \in {Alice, Stranger}, i \in {"1", "2"} : SetBotPrompt(t, PersonaOf(i))
  \/ \E ev \in Events : Middleware(1, ev)
  \/ /\ frames[1] # <<>>
     /\ \E m \in methodsToWrap, e \in Events : CallEntry(1, m, <<SessionArg(e)>>)
  \/ ReturnEntry(1)
  \/ MiddlewareReturn(1)
  \/ ReadConfigAccessor

SpecAccessor == InitAccessor /\ [][NextAccessor]_vars

----------------------------------------------------------------------------
(* Claims *)

\* the tenant configured for the origin of a session, '' when there is none
TenantOf(ev) ==
  LET botId == getBotId(ev.platform, ev.selfId)
  IN IF getBotConfig(bots, botId) = None THEN EmptyStr ELSE botId

\* the method frames of task k
MethodFrames(k) == {i \in 1..Len(frames[k]) : frames[k][i].kind = "method"}

\* C1: for an event whose origin has a configured tenant t, every session
\* object an entry method receives reads its user identity as
\* sat_<t>_<realUserId>, never as the bare real user id.
C1_EntrySessionIsVirtual ==
  \A k \in Tasks : \A i \in MethodFrames(k) :
    \A j \in 1..Len(frames[k][i].args) :
      (SessionShaped(frames[k][i].args[j]) /\ TenantOf(event[k]) # EmptyStr)
        => frames[k][i].args[j].obj.userId
             = Prefix(TenantOf(event[k])) \o event[k].userId

\* C2: at every point of the handling of an event the task's current tenant
\* is the tenant of its own origin, and '' for an origin without a
\* configured tenant, whatever scopes other tasks have open.
C2_TaskSeesOwnTenant ==
  \A k \in Tasks :
    frames[k] # <<>> => getCurrentBotId(k) = TenantOf(event[k])

\* every override value the record of tenant t carries
OverrideValuesOf(t) ==
  LET hit == getBotConfig(bots, t)
  IN IF hit = None THEN {}
     ELSE LET b == hit[1]
              models == {o[1][f] : o \in {b.reasonerModel, b.notReasonerModel} \ {None},
                                   f \in {"model", "baseURL", "apiKey"}}
              favs == IF b.favorabilityConfig = None THEN {}
                      ELSE {b.favorabilityConfig[1][p] : p \in FavorabilityProps}
              moods == IF b.moodConfig = None THEN {}
                       ELSE {b.moodConfig[1][p] : p \in MoodProps}
          IN ({b.prompt} \cup models \cup favs \cup moods) \ {Undef, EmptyStr, NoKeys}

\* C5: a configuration read made while handling an event of tenant t never
\* returns a value registered for another tenant; in Scenario A an event
\* from bot1 reads persona P1 and the baseline model, an event from bot2
\* reads persona P2 and model m2, in every interleaving.
C5_NoCrossTenantRead ==
  lastRead # NoResult =>
    LET k == lastRead.task
        t == TenantOf(event[k])
    IN /\ \A other \in Tenants \ {t} : lastRead.value \notin OverrideValuesOf(other)
       /\ (bots = <<ScenarioAlice, ScenarioBob>> /\ event[k] = EventOf(Bot1)) =>
            /\ lastRead.prop = "prompt" => lastRead.value = PersonaOf("1")
            /\ lastRead.prop = "appointModel"
                 => lastRead.value = ConfigValues("cfg0")["appointModel"]
       /\ (bots = <<ScenarioAlice, ScenarioBob>> /\ event[k] = EventOf(Bot2)) =>
            /\ lastRead.prop = "prompt" => lastRead.value = PersonaOf("2")
            /\ lastRead.prop = "appointModel" => lastRead.value = ModelOf("2")

\* bot2's event reads model m2 inside an entry method while bot1's event is
\* suspended inside one of its own
C5_Witness ==
  /\ bots = <<ScenarioAlice, ScenarioBob>>
  /\ lastRead # NoResult
  /\ lastRead.task = 2
  /\ lastRead.prop = "appointModel"
  /\ lastRead.value = ModelOf("2")
  /\ event[1] = EventOf(Bot1)
  /\ event[2] = EventOf(Bot2)
  /\ MethodFrames(1) # {}
  /\ MethodFrames(2) # {}
  /\ getCurrentBotId(1) = Alice

\* the value the wrapped configuration object holds for the property read
OriginalValue == ConfigValues(proxyTarget[1])[lastRead.prop]

\* no scope is open where the last read was made
ReadOutsideScope ==
  \/ lastRead.task = 0
  \/ \A i \in 1..Len(frames[lastRead.task]) : frames[lastRead.task][i].scope = None

\* C3: with no propagation scope open, a read of any property through the
\* wrapped configuration returns the value of the configuration object the
\* facade wraps, whatever overrides are registered.
C3_TransparentOutsideScope ==
  (lastRead # NoResult /\ ReadOutsideScope) => lastRead.value = OriginalValue

\* the persona is read outside any scope while both tenants have one
C3_Witness ==
  /\ lastRead # NoResult
  /\ ReadOutsideScope
  /\ lastRead.task = 1
  /\ lastRead.prop = "prompt"
  /\ {Alice, Bob} \subseteq DOMAIN botPrompts
  /\ lastRead.value = ConfigValues("cfg0")["prompt"]

\* the override value the record b gives for a reasoning / persona property
CarriedOverride(b, prop) ==
  IF prop = "prompt" THEN b.prompt
  ELSE OptField(b.reasonerModel, OverrideField(prop))

\* a value was given: not undefined and not the schema default ('' or [])
Given(v) == v \notin {Undef, EmptyStr, NoKeys}

\* C4: with tenant t current, a read of the reasoning model name, endpoint,
\* credential list or persona returns the override the record of t carries
\* for that property, and the original value when it carries none, each
\* property independently of the others.
C4_OverridePrecedence ==
  (/\ lastRead # NoResult
   /\ lastRead.prop \in ReasonerProps \cup {"prompt"}
   /\ getBotConfig(bots, lastRead.bot) # None) =>
    LET v == CarriedOverride(getBotConfig(bots, lastRead.bot)[1], lastRead.prop)
    IN lastRead.value = IF Given(v) THEN v ELSE OriginalValue

\* C6: the low-cost-model, affinity and mood overrides of a tenant are
\* returned by reads under that tenant only if the enable flag of their
\* group is true in its record; otherwise the reads return the original
\* values, even when the override object is populated.
C6_DisabledOverridesInvisible ==
  (lastRead # NoResult /\ getBotConfig(bots, lastRead.bot) # None) =>
    LET b == getBotConfig(bots, lastRead.bot)[1]
    IN /\ (lastRead.prop \in NotReasonerProps /\ b.enableNotReasoner # TRUE)
            => lastRead.value = OriginalValue
       /\ (lastRead.prop \in FavorabilityProps /\ b.enableFavorability # TRUE)
            => lastRead.value = OriginalValue
       /\ (lastRead.prop \in MoodProps /\ b.enableMood # TRUE)
            => lastRead.value = OriginalValue

\* an affinity text is read under a tenant whose record populates the
\* affinity object and leaves the flag off
C6_Witness ==
  /\ lastRead # NoResult
  /\ lastRead.bot = Alice
  /\ lastRead.prop = "prompt_0"
  /\ bots[1].enableFavorability = FALSE
  /\ bots[1].favorabilityConfig = Some(FavorabilityOf("1"))
  /\ lastRead.value = ConfigValues("cfg0")["prompt_0"]

\* every value registered for tenant t in the virtualizer's maps
RegisteredValues(t) ==
  (IF t \in DOMAIN botPrompts THEN {botPrompts[t]} ELSE {})
    \cup UNION {{m[t][f] : f \in {"model", "baseURL", "apiKey"}} :
                  m \in {x \in {botReasonerModels, botNotReasonerModels} :
                           t \in DOMAIN x}}
    \cup (IF t \in DOMAIN botFavorabilityConfigs
          THEN {botFavorabilityConfigs[t][p] : p \in FavorabilityProps} ELSE {})
    \cup (IF t \in DOMAIN botMoodConfigs
          THEN {botMoodConfigs[t][p] : p \in MoodProps} ELSE {})

\* C7: once the shared service has assigned a configuration object, a read
\* returns either an override registered for the current tenant or the
\* value of the assigned (latest) configuration object.
C7_AssignedConfigIsBaseline ==
  lastRead # NoResult =>
    \/ lastRead.value = ConfigValues(originalSATConfig[1])[lastRead.prop]
    \/ lastRead.value \in RegisteredValues(lastRead.bot)

NoSeparator(t) == \A i \in 1..Len(t) : t[i] # "_"

\* C8: for a tenant id t without '_' and a non-empty real identity u, the
\* identity the facade returns decodes to u and its tenant id is t.
C8_RoundTrip ==
  (/\ decoded # NoResult
   /\ facade # None
   /\ NoSeparator(facade[1])) =>
    /\ (/\ session.userId # EmptyStr
        /\ decoded.of = VirtualSessionGet(session, facade[1], virtualizeChannelId,
                                          botPrompts, "userId"))
         => (decoded.user = session.userId /\ decoded.bot = facade[1])
    /\ (/\ virtualizeChannelId
        /\ decoded.of = VirtualSessionGet(session, facade[1], virtualizeChannelId,
                                          botPrompts, "channelId"))
         => decoded.channel = session.channelId

\* the delegated call carries the query with the identity filter replaced
\* by realUserId = u and botId = t and is otherwise the call as given
RewrittenAs(u, t) ==
  LET q == dbCall.given.query
      r == dbCall.made.query
  IN /\ dbCall.made.table = dbCall.given.table
     /\ dbCall.made.args = dbCall.given.args
     /\ DOMAIN r \ {"userid"}
          = (DOMAIN q \cup {"realUserId", "botId"}) \ {"userid"}
     /\ "userid" \in DOMAIN r => r.userid = Undef
     /\ r.realUserId = u
     /\ r.botId = t
     /\ \A f \in DOMAIN q \ {"userid", "realUserId", "botId"} : r[f] = q[f]

\* C9: a read on p_system whose identity filter is the virtual identity of
\* tenant t and real identity u is delegated with the filter replaced by
\* realUserId = u and botId = t; a read without the marker, without an
\* identity filter or on another table is delegated as given.
C9_QueryRewrite ==
  (dbCall # NoResult /\ dbCall.wrapped) =>
    LET q == dbCall.given.query
        filter == QueryUserid(q)
    IN /\ (/\ dbCall.given.table = TenantTable
           /\ facade # None
           /\ NoSeparator(facade[1])
           /\ session.userId # EmptyStr
           /\ filter = Prefix(facade[1]) \o session.userId)
            => RewrittenAs(session.userId, facade[1])
       /\ (\/ dbCall.given.table # TenantTable
           \/ filter = Undef
           \/ ~StartsWith(filter, Marker))
            => dbCall.made = dbCall.given

\* C10: an intercepted entry method called with a session-shaped argument
\* whose origin has a configured tenant t runs with current tenant t; called
\* with no session-shaped argument, or with one whose origin has no
\* configured tenant, it runs with the current tenant of the call site and
\* opens no scope.
C10_EntryScope ==
  \A i \in MethodFrames(1) :
    LET fr == frames[1]
        args == fr[i].args
        configured == {j \in 1..Len(args) :
                         SessionShaped(args[j]) /\ TenantOf(args[j].obj) # EmptyStr}
    IN IF configured # {}
       THEN StoreOf(SubSeq(fr, 1, i)) = TenantOf(args[SetMin(configured)].obj)
       ELSE /\ fr[i].scope = None
            /\ StoreOf(SubSeq(fr, 1, i)) = StoreOf(SubSeq(fr, 1, i - 1))

\* tenant t has a reasoning or a low-cost model override registered
HasModelOverride(t) ==
  t \in DOMAIN botReasonerModels \cup DOMAIN botNotReasonerModels

\* C11: two consecutive client acquisitions for a tenant with a model
\* override, the overrides unchanged in between, yield the identical
\* handle, and at most one client is constructed for the tenant however
\* many chat calls are made.
C11_ClientCached ==
  /\ (acq # NoResult /\ acq.previous # None /\ HasModelOverride(acq.bot))
       => acq.handle = acq.previous[1]
  /\ \A t \in DOMAIN builtCount : builtCount[t] <= 1

\* C12: whenever a client is constructed on a chat call through a handle
\* obtained while tenant t was current, the construction executes with
\* current tenant t, whatever continuation the handle is invoked from.
C12_ConstructionInTenantScope ==
  (lastChat # NoResult /\ lastChat.built # None)
    => lastChat.current = lastChat.handle.botId

C14_UnderlyingNeverVirtual ==
  facade # None =>
    /\ ~StartsWith(session.userId, Marker)
    /\ ~StartsWith(session.channelId, Marker)
    /\ (/\ lastSet # NoResult
        /\ lastSet.prop \in {"userId", "channelId"}
        /\ ~StartsWith(lastSet.value, Marker))
         => session[lastSet.prop] = lastSet.value

C16_ScenarioC ==
  \A t1 \in DOMAIN seen : \A t2 \in DOMAIN seen \ {t1} :
    seen[t1].real = seen[t2].real =>
      IF virtualizeChannelId
      THEN /\ seen[t1].read # seen[t2].read
           /\ seen[t1].read = Prefix(t1) \o seen[t1].real
           /\ resolveRealChannelId(seen[t1].read) = seen[t1].real
      ELSE /\ seen[t1].read = seen[t2].read
           /\ seen[t1].read = seen[t1].real

\* both tenants' facades have read the channel id of the same channel,
\* virtualized
C16_Witness ==
  /\ virtualizeChannelId
  /\ {Alice, Bob} \subseteq DOMAIN seen
  /\ seen[Alice].real = RealChannel
  /\ seen[Bob].real = RealChannel
  /\ seen[Alice].read # seen[Bob].read

C18_WrappedAtMostOnce ==
  /\ layers <= 1
  /\ entryCall # NoResult => entryCall.scopes <= 1
  /\ originalSATConfig # Some("wrappedConfig")

\* C19: after the dispose handler has run, an entry-method call opens no
\* scope and the configuration accessor returns the original configuration
\* object.
C19_DisposeRestores ==
  phase = "stopped" =>
    /\ entryCall # NoResult => entryCall.scopes = 0
    /\ (accessed # NoResult /\ accessed.what = "config")
         => accessed.value = <<"cfg0">>

\* C20: after one or more wrapDatabaseGet calls followed by
\* unwrapDatabaseGet every read is delegated with the query as given; while
\* wrapped, however many wrapDatabaseGet calls were made, a read on the
\* tenant-aware table with a virtualized identity filter is delegated
\* rewritten once, and any other read as given.
C20_WrapUnwrapDatabase ==
  (dbCall # NoResult /\ wrapCalls >= 1) =>
    IF phase = "stopped" THEN dbCall.made = dbCall.given
    ELSE IF /\ dbCall.given.table = TenantTable
            /\ QueryUserid(dbCall.given.query) = VirtualAlice
         THEN RewrittenAs(RealUser, Alice)
         ELSE dbCall.made = dbCall.given

\* a virtualized read on the tenant-aware table after two wrapDatabaseGet
\* calls and the unwrap
C20_Witness ==
  /\ phase = "stopped"
  /\ wrapCalls >= 2
  /\ layers = 1
  /\ dbCall # NoResult
  /\ dbCall.given.table = TenantTable
  /\ QueryUserid(dbCall.given.query) = VirtualAlice
  /\ dbCall.made = dbCall.given

\* C21: the poll timer makes at most 20 attach attempts; a tick cancels the
\* timer exactly when its attach attempt returns true or it is the 20th
\* tick; no tick happens once the timer is cancelled; while the shared
\* service has never been available the instance stays unwrapped, and no
\* attach attempt lets a failure escape.
C21_PollingBounded ==
  [][/\ checkCount' <= 20
     /\ checkCount' = checkCount + 1 =>
          /\ checkTimer = "active"
          /\ attempt'.by = "poll"
          /\ checkTimer' = "cleared" <=> (attempt'.returns \/ checkCount' = 20)
          /\ checkTimer' \in {"active", "cleared"}
     /\ sat' = "absent" => (~satWrapped' /\ layers' = 0)
     /\ attempt' # NoResult => ~attempt'.escaped]_vars

\* the 20th tick has cancelled the timer with the shared service absent
C21_Witness ==
  /\ checkCount = 20
  /\ checkTimer = "cleared"
  /\ sat = "absent"
  /\ ~satWrapped
  /\ attempt # NoResult
  /\ attempt.by = "poll"
  /\ ~attempt.returns

\* C22: once the reload command has been issued with a new tenant list in
\* the external configuration, the handling of every event that starts
\* runs inside the scope the new list gives its origin, and the reload
\* leaves the current tenant of every request in flight as it was.
C22_ReloadTakesEffect ==
  [][\A k \in Tasks :
       /\ (/\ accessed # NoResult
           /\ accessed.what = "reload"
           /\ frames[k] = <<>>
           /\ frames'[k] # <<>>)
            => frames'[k][1].scope = MiddlewareScope(Latest, event'[k])
       /\ (/\ accessed' # NoResult
           /\ accessed'.what = "reload"
           /\ frames[k] # <<>>)
            => getCurrentBotId(k)' = getCurrentBotId(k)]_vars

\* C23: when the dispose handler has run, every cleanup step was run
\* whatever failed in the others, so the scan timer and the poll timer are
\* cancelled unless their own cancelling failed, and no failure left the
\* handler.
C23_CleanupIsolated ==
  (phase = "stopped" /\ cleanup # NoResult) =>
    /\ cleanup.scanRan
    /\ cleanup.pollRan
    /\ ~cleanup.escaped
    /\ "disposeScan" \notin faults => scanTimer # "pending"
    /\ "disposePoll" \notin faults => checkTimer # "active"

\* C24: every call through the entry-method patch, the middleware or the
\* wrapped database read invokes the original exactly once and yields what
\* the original settled with, value or failure, with or without a scope.
C24_WrappersPassThrough ==
  (lastReturn # NoResult /\ (lastReturn.wrapper = "database" => dbCall.wrapped)) =>
    /\ lastReturn.calls = 1
    /\ lastReturn.yielded = lastReturn.original

\* C25: a read on the tenant-aware table whose identity filter is not a
\* string (a list of identities, a comparison object) is delegated to the
\* original read path with the query as given, and the caller gets what the
\* original settled with.
C25_UninterpretableFilterPassesThrough ==
  (/\ dbCall # NoResult
   /\ dbCall.wrapped
   /\ dbCall.given.table = TenantTable
   /\ Truthy(QueryUserid(dbCall.given.query))
   /\ ~IsString(QueryUserid(dbCall.given.query))) =>
    /\ dbCall.made = dbCall.given
    /\ lastReturn.calls = 1
    /\ lastReturn.yielded = lastReturn.original

\* the trigger length configured for tenant t, where one is
LengthsOf(t) ==
  {bots[i].notReasonerModel[1].length :
     i \in {j \in 1..Len(bots) :
              /\ bots[j].botId = t
              /\ bots[j].enableNotReasoner = TRUE
              /\ bots[j].notReasonerModel # None
              /\ "length" \in DOMAIN bots[j].notReasonerModel[1]}}

\* C26: with tenant t current, the low-cost model enabled and a trigger
\* length configured for t, a read of use_not_reasoner_LLM_length returns
\* t's length, and the configuration of the client built for t carries it.
C26_LengthOverride ==
  /\ (/\ lastRead # NoResult
      /\ lastRead.prop = "use_not_reasoner_LLM_length"
      /\ LengthsOf(lastRead.bot) # {})
       => lastRead.value \in LengthsOf(lastRead.bot)
  /\ (/\ lastChat # NoResult
      /\ lastChat.built # None
      /\ lastChat.current = lastChat.handle.botId
      /\ LengthsOf(lastChat.current) # {})
       => lastChat.built[1].use_not_reasoner_LLM_length
            \in LengthsOf(lastChat.current)

\* the strings the virtual-identity pattern leaves out: no marker at the
\* start, nothing between the marker and the next "_", or nothing after
\* the "_" that ends the tenant segment
NoMarker(v) == ~StartsWith(v, Marker)
EmptyTenant(v) == StartsWith(v, Marker) /\ Len(v) >= 5 /\ v[5] = "_"
EmptyReal(v) ==
  /\ StartsWith(v, Marker)
  /\ \A i \in 5..Len(v) : v[i] = "_" => i = Len(v)

\* C27: of a string without the marker, with an empty tenant segment or
\* with an empty real identity, resolveRealUserId and resolveRealChannelId
\* return the string itself and extractBotId the empty string; and of every
\* string extractBotId returns a tenant exactly when resolveRealUserId
\* returns something else than the string.
C27_PermissiveDecoding ==
  decoded # NoResult =>
    LET v == decoded.of
    IN /\ (NoMarker(v) \/ EmptyTenant(v) \/ EmptyReal(v)) =>
            /\ decoded.user = v
            /\ decoded.channel = v
            /\ decoded.bot = EmptyStr
       /\ decoded.bot # EmptyStr <=> decoded.user # v

\* the marker and a tenant with nothing after the separator
C27_Witness ==
  /\ decoded # NoResult
  /\ decoded.of = Marker \o Alice \o <<"_">>
  /\ decoded.user = decoded.of
  /\ decoded.bot = EmptyStr

\* C28: an attach attempt that finds the shared service calls
\* ctx.model.extend unless the extension has succeeded in this run, and no
\* attempt calls it otherwise; once it has succeeded no later attempt of
\* the run repeats it; and an attempt whose extension fails with the
\* service ready still wraps the instance and returns true.
C28_ExtensionOnceAndTolerated ==
  [][attempt' # NoResult =>
       /\ attempt'.extends <=> (attempt'.found /\ ~attempt'.extendedBefore)
       /\ (attempt'.extends /\ ~attempt'.extendThrew) => dbExtended'
       /\ (dbExtended /\ phase' = phase) =>
            (dbExtended' /\ (attempt' # attempt => ~attempt'.extends))
       /\ (attempt'.extendThrew /\ attempt'.service = "ready") =>
            (attempt'.returns /\ satWrapped' /\ layers' >= 1)]_vars

\* the extension has failed in the attempt that wrapped the instance
C28_Witness ==
  /\ attempt # NoResult
  /\ attempt.extendThrew
  /\ attempt.service = "ready"
  /\ attempt.by = "poll"
  /\ satWrapped
  /\ ~dbExtended

\* C29: once the shared service instance is wrapped, every configured
\* tenant has a status entry with initialized = true, and the status query
\* lists every configured tenant with its tenant id, platform and
\* initialized flag.
C29_StatusAfterWrap ==
  (phase = "running" /\ satWrapped) =>
    /\ \A i \in 1..Len(bots) :
         /\ bots[i].botId \in DOMAIN botStatusMap
         /\ botStatusMap[bots[i].botId].initialized = TRUE
    /\ (accessed # NoResult /\ accessed.what = "status") =>
         {e.botId : e \in accessed.value} = {bots[i].botId : i \in 1..Len(bots)}

\* C30: once the instance is wrapped, every read of satInstance.config
\* returns the one interception facade, whatever the shared service has
\* assigned to config, whatever personas were registered and whatever
\* scopes are open; it never returns a raw configuration object.
C30_AccessorReturnsFacade ==
  (accessed # NoResult /\ accessed.what = "config" /\ satWrapped) =>
    /\ accessed.value = <<"wrappedConfig">>
    /\ accessed.value[1] \notin ConfigObjects

\* the accessor read inside a scope after the shared service has assigned
\* another configuration object and a persona was registered
C30_Witness ==
  /\ accessed # NoResult
  /\ accessed.what = "config"
  /\ accessed.value = <<"wrappedConfig">>
  /\ originalSATConfig = Some("cfg1")
  /\ getCurrentBotId(1) = Bob
  /\ MapGet(botPrompts, Alice) = PersonaOf("2")

\* C31: an attach attempt made with the shared service available wraps the
\* instance, whether apply(), a poll tick or the readiness listener makes
\* it and whether or not the poll timer is still on; while the plugin runs
\* a wrapped instance stays wrapped and no later attempt looks the service
\* up, extends the table or wraps again; and with the service available,
\* a loaded plugin, and a running plugin whose poll timer is on, reach the
\* wrapped state unless the plugin is stopped first.
C31_EventualAttach ==
  /\ [][/\ (attempt' # NoResult /\ attempt'.service = "ready") =>
            (satWrapped' /\ attempt'.returns)
        /\ (satWrapped /\ phase = "running") =>
            /\ satWrapped'
            /\ layers' = layers
            /\ dbExtended' = dbExtended
            /\ attempt' # attempt =>
                 (~attempt'.found /\ ~attempt'.extends /\ attempt'.returns)]_vars
  /\ (phase = "constructed" /\ sat = "ready") ~> satWrapped
  /\ (phase = "running" /\ sat = "ready" /\ checkTimer = "active")
       ~> (satWrapped \/ phase = "stopped")

\* the readiness listener has wrapped the instance after the poll gave up
\* at its 20th tick
C31_Witness ==
  /\ phase = "running"
  /\ satWrapped
  /\ checkCount = 20
  /\ checkTimer = "cleared"
  /\ attempt # NoResult
  /\ attempt.by = "ready"
  /\ attempt.found
  /\ attempt.returns

\* C32: for a configured tenant whose id is any platform:selfId, with or
\* without '_', and a real identity u, the identity the facade builds
\* decodes to u with tenant id t, and a read on p_system filtered by it is
\* delegated with realUserId = u and botId = t.
C32_TenantIdRoundTrip ==
  (/\ facade # None
   /\ getBotConfig(bots, facade[1]) # None
   /\ session.userId # EmptyStr) =>
    LET virtual == VirtualSessionGet(session, facade[1], virtualizeChannelId,
                                     botPrompts, "userId")
    IN /\ (decoded # NoResult /\ decoded.of = virtual) =>
            (decoded.user = session.userId /\ decoded.bot = facade[1])
       /\ (/\ dbCall # NoResult
           /\ dbCall.wrapped
           /\ dbCall.given.table = TenantTable
           /\ QueryUserid(dbCall.given.query) = virtual)
            => RewrittenAs(session.userId, facade[1])

\* the field of dynamicConfig that carries a model property
ClientField(prop) == IF prop = "key" THEN "keys" ELSE prop

\* C33: the configuration of a client constructed for tenant t holds, for
\* each of the six model properties, the value a read of that property
\* through the configuration facade returns with t current, also after the
\* shared service has assigned another configuration object.
C33_FacadeAndClientAgree ==
  [][builtCount' # builtCount =>
       \A prop \in ModelProps :
         lastChat'.built[1][ClientField(prop)]
           = WrappedConfigGet(ConfigValues(proxyTarget'[1]), Maps',
                              lastChat'.handle.botId, prop)]_vars

\* the values the configuration objects of the shared service hold for prop
BaselineValues(prop) == {ConfigValues(c)[prop] : c \in ConfigObjects}

\* the tenant records of botId whose reasoning (low-cost) override is the
\* model name with the schema's defaults
DefaultedReasoner(botId) ==
  \E i \in 1..Len(bots) :
    /\ bots[i].botId = botId
    /\ bots[i].reasonerModel # None
    /\ bots[i].reasonerModel = SchemaDefaults(bots[i].reasonerModel[1].model)

DefaultedNotReasoner(botId) ==
  \E i \in 1..Len(bots) :
    /\ bots[i].botId = botId
    /\ bots[i].enableNotReasoner = TRUE
    /\ bots[i].notReasonerModel # None
    /\ bots[i].notReasonerModel
         = SchemaDefaults(bots[i].notReasonerModel[1].model)

\* C34: for a tenant whose reasoning (enabled low-cost) override names a
\* model and leaves the endpoint '' and the credential list [], a read of
\* the endpoint and a read of the credential list with that tenant current
\* return the values of the shared service's configuration, and a client
\* constructed for the tenant gets those values.
C34_EmptyOverridesAbsent ==
  /\ lastRead # NoResult =>
       /\ (DefaultedReasoner(lastRead.bot) /\ lastRead.prop \in {"baseURL", "key"})
            => lastRead.value \in BaselineValues(lastRead.prop)
       /\ (/\ DefaultedNotReasoner(lastRead.bot)
           /\ lastRead.prop \in {"not_reasoner_LLM_URL", "not_reasoner_LLM_key"})
            => lastRead.value \in BaselineValues(lastRead.prop)
  /\ (lastChat # NoResult /\ lastChat.built # None) =>
       /\ DefaultedReasoner(lastChat.handle.botId) =>
            /\ lastChat.built[1].baseURL \in BaselineValues("baseURL")
            /\ lastChat.built[1].keys \in BaselineValues("key")
       /\ DefaultedNotReasoner(lastChat.handle.botId) =>
            /\ lastChat.built[1].not_reasoner_LLM_URL
                 \in BaselineValues("not_reasoner_LLM_URL")
            /\ lastChat.built[1].not_reasoner_LLM_key
                 \in BaselineValues("not_reasoner_LLM_key")

====
